---- MODULE Spec2Model ----
(***************************************************************************)
(* A model of the binarygcode streaming deserialiser (deserialiser.rs),    *)
(* the block and file-header serialisers (components/serialiser.rs) and    *)
(* the enum and CRC primitives (components/common.rs).                     *)
(*                                                                         *)
(* Bytes are integers 0..255 and byte buffers are sequences of bytes.      *)
(* TLC's integers are 32-bit signed, so a u32 (and a usize holding a u32   *)
(* plus a few bytes of framing, on a 64-bit target) is kept as the pair    *)
(* <<hi, lo>> of its 16-bit halves: value = hi * 65536 + lo.               *)
(***************************************************************************)
EXTENDS Integers, Sequences, FiniteSets, TLC

(***************************************************************************)
(* Bounds of the model.                                                    *)
(***************************************************************************)
\* Longest payload of a generated block.
MaxPayload == 5
\* Largest number of blocks after the file header in a generated stream.
MaxBlocks == 2
\* Largest number of reset() calls in a behaviour.
MaxResets == 1
\* Longest chunk handed to digest, short of handing it all the rest of the stream.
MaxChunk == 2

(***************************************************************************)
(* Scalars: little-endian reads and writes, usize arithmetic.              *)
(***************************************************************************)
Byte == 0..255

u16_from_le_bytes(b) == b[1] + 256 * b[2]

u16_to_le_bytes(v) == <<v % 256, (v \div 256) % 256>>

u16_to_be_bytes(v) == <<(v \div 256) % 256, v % 256>>

u32_from_le_bytes(b) == <<b[3] + 256 * b[4], b[1] + 256 * b[2]>>

u32_to_le_bytes(w) == <<w[2] % 256, w[2] \div 256, w[1] % 256, w[1] \div 256>>

\* n as usize / as u32, for a length n below 65536.
Wide(n) == <<n \div 65536, n % 65536>>

\* w + n for a usize w and a small n.
WideAdd(w, n) ==
  LET s == w[2] + n
  IN  <<w[1] + (s \div 65536), s % 65536>>

\* a < b for two usize values.
WideLess(a, b) == a[1] < b[1] \/ (a[1] = b[1] /\ a[2] < b[2])

\* a - b for two usize values with b <= a.
WideSub(a, b) ==
  IF a[2] >= b[2] THEN <<a[1] - b[1], a[2] - b[2]>>
  ELSE <<a[1] - b[1] - 1, a[2] + 65536 - b[2]>>

\* A usize known to index the pending buffer, as an integer.
WideToInt(w) == w[1] * 65536 + w[2]

\* Option<T>.
None == <<>>
Some(x) == <<x>>

\* buf[a..b] (Rust's half-open range, zero-based) and whether it is in range.
SliceOk(buf, a, b) == 0 <= a /\ a <= b /\ b <= Len(buf)

Slice(buf, a, b) == SubSeq(buf, a + 1, b)

\* Vec::drain(..n): the buffer without its first n bytes.
Drain(buf, n) == SubSeq(buf, n + 1, Len(buf))

(***************************************************************************)
(* crc32: table driven, reflected, initial 0xFFFFFFFF, final complement.   *)
(* The running crc is held as its four bytes, low byte first.              *)
(***************************************************************************)
XorNibble ==
  <<
    <<0, 1, 2, 3, 4, 5, 6, 7, 8, 9, 10, 11, 12, 13, 14, 15>>,
    <<1, 0, 3, 2, 5, 4, 7, 6, 9, 8, 11, 10, 13, 12, 15, 14>>,
    <<2, 3, 0, 1, 6, 7, 4, 5, 10, 11, 8, 9, 14, 15, 12, 13>>,
    <<3, 2, 1, 0, 7, 6, 5, 4, 11, 10, 9, 8, 15, 14, 13, 12>>,
    <<4, 5, 6, 7, 0, 1, 2, 3, 12, 13, 14, 15, 8, 9, 10, 11>>,
    <<5, 4, 7, 6, 1, 0, 3, 2, 13, 12, 15, 14, 9, 8, 11, 10>>,
    <<6, 7, 4, 5, 2, 3, 0, 1, 14, 15, 12, 13, 10, 11, 8, 9>>,
    <<7, 6, 5, 4, 3, 2, 1, 0, 15, 14, 13, 12, 11, 10, 9, 8>>,
    <<8, 9, 10, 11, 12, 13, 14, 15, 0, 1, 2, 3, 4, 5, 6, 7>>,
    <<9, 8, 11, 10, 13, 12, 15, 14, 1, 0, 3, 2, 5, 4, 7, 6>>,
    <<10, 11, 8, 9, 14, 15, 12, 13, 2, 3, 0, 1, 6, 7, 4, 5>>,
    <<11, 10, 9, 8, 15, 14, 13, 12, 3, 2, 1, 0, 7, 6, 5, 4>>,
    <<12, 13, 14, 15, 8, 9, 10, 11, 4, 5, 6, 7, 0, 1, 2, 3>>,
    <<13, 12, 15, 14, 9, 8, 11, 10, 5, 4, 7, 6, 1, 0, 3, 2>>,
    <<14, 15, 12, 13, 10, 11, 8, 9, 6, 7, 4, 5, 2, 3, 0, 1>>,
    <<15, 14, 13, 12, 11, 10, 9, 8, 7, 6, 5, 4, 3, 2, 1, 0>>
  >>

\* a ^ b on bytes.
XorByte(a, b) ==
  16 * XorNibble[(a \div 16) + 1][(b \div 16) + 1] + XorNibble[(a % 16) + 1][(b % 16) + 1]

CRC32_TABLE ==
  <<
    <<0, 0, 0, 0>>, <<150, 48, 7, 119>>, <<44, 97, 14, 238>>, <<186, 81, 9, 153>>,
    <<25, 196, 109, 7>>, <<143, 244, 106, 112>>, <<53, 165, 99, 233>>, <<163, 149, 100, 158>>,
    <<50, 136, 219, 14>>, <<164, 184, 220, 121>>, <<30, 233, 213, 224>>, <<136, 217, 210, 151>>,
    <<43, 76, 182, 9>>, <<189, 124, 177, 126>>, <<7, 45, 184, 231>>, <<145, 29, 191, 144>>,
    <<100, 16, 183, 29>>, <<242, 32, 176, 106>>, <<72, 113, 185, 243>>, <<222, 65, 190, 132>>,
    <<125, 212, 218, 26>>, <<235, 228, 221, 109>>, <<81, 181, 212, 244>>, <<199, 133, 211, 131>>,
    <<86, 152, 108, 19>>, <<192, 168, 107, 100>>, <<122, 249, 98, 253>>, <<236, 201, 101, 138>>,
    <<79, 92, 1, 20>>, <<217, 108, 6, 99>>, <<99, 61, 15, 250>>, <<245, 13, 8, 141>>,
    <<200, 32, 110, 59>>, <<94, 16, 105, 76>>, <<228, 65, 96, 213>>, <<114, 113, 103, 162>>,
    <<209, 228, 3, 60>>, <<71, 212, 4, 75>>, <<253, 133, 13, 210>>, <<107, 181, 10, 165>>,
    <<250, 168, 181, 53>>, <<108, 152, 178, 66>>, <<214, 201, 187, 219>>, <<64, 249, 188, 172>>,
    <<227, 108, 216, 50>>, <<117, 92, 223, 69>>, <<207, 13, 214, 220>>, <<89, 61, 209, 171>>,
    <<172, 48, 217, 38>>, <<58, 0, 222, 81>>, <<128, 81, 215, 200>>, <<22, 97, 208, 191>>,
    <<181, 244, 180, 33>>, <<35, 196, 179, 86>>, <<153, 149, 186, 207>>, <<15, 165, 189, 184>>,
    <<158, 184, 2, 40>>, <<8, 136, 5, 95>>, <<178, 217, 12, 198>>, <<36, 233, 11, 177>>,
    <<135, 124, 111, 47>>, <<17, 76, 104, 88>>, <<171, 29, 97, 193>>, <<61, 45, 102, 182>>,
    <<144, 65, 220, 118>>, <<6, 113, 219, 1>>, <<188, 32, 210, 152>>, <<42, 16, 213, 239>>,
    <<137, 133, 177, 113>>, <<31, 181, 182, 6>>, <<165, 228, 191, 159>>, <<51, 212, 184, 232>>,
    <<162, 201, 7, 120>>, <<52, 249, 0, 15>>, <<142, 168, 9, 150>>, <<24, 152, 14, 225>>,
    <<187, 13, 106, 127>>, <<45, 61, 109, 8>>, <<151, 108, 100, 145>>, <<1, 92, 99, 230>>,
    <<244, 81, 107, 107>>, <<98, 97, 108, 28>>, <<216, 48, 101, 133>>, <<78, 0, 98, 242>>,
    <<237, 149, 6, 108>>, <<123, 165, 1, 27>>, <<193, 244, 8, 130>>, <<87, 196, 15, 245>>,
    <<198, 217, 176, 101>>, <<80, 233, 183, 18>>, <<234, 184, 190, 139>>, <<124, 136, 185, 252>>,
    <<223, 29, 221, 98>>, <<73, 45, 218, 21>>, <<243, 124, 211, 140>>, <<101, 76, 212, 251>>,
    <<88, 97, 178, 77>>, <<206, 81, 181, 58>>, <<116, 0, 188, 163>>, <<226, 48, 187, 212>>,
    <<65, 165, 223, 74>>, <<215, 149, 216, 61>>, <<109, 196, 209, 164>>, <<251, 244, 214, 211>>,
    <<106, 233, 105, 67>>, <<252, 217, 110, 52>>, <<70, 136, 103, 173>>, <<208, 184, 96, 218>>,
    <<115, 45, 4, 68>>, <<229, 29, 3, 51>>, <<95, 76, 10, 170>>, <<201, 124, 13, 221>>,
    <<60, 113, 5, 80>>, <<170, 65, 2, 39>>, <<16, 16, 11, 190>>, <<134, 32, 12, 201>>,
    <<37, 181, 104, 87>>, <<179, 133, 111, 32>>, <<9, 212, 102, 185>>, <<159, 228, 97, 206>>,
    <<14, 249, 222, 94>>, <<152, 201, 217, 41>>, <<34, 152, 208, 176>>, <<180, 168, 215, 199>>,
    <<23, 61, 179, 89>>, <<129, 13, 180, 46>>, <<59, 92, 189, 183>>, <<173, 108, 186, 192>>,
    <<32, 131, 184, 237>>, <<182, 179, 191, 154>>, <<12, 226, 182, 3>>, <<154, 210, 177, 116>>,
    <<57, 71, 213, 234>>, <<175, 119, 210, 157>>, <<21, 38, 219, 4>>, <<131, 22, 220, 115>>,
    <<18, 11, 99, 227>>, <<132, 59, 100, 148>>, <<62, 106, 109, 13>>, <<168, 90, 106, 122>>,
    <<11, 207, 14, 228>>, <<157, 255, 9, 147>>, <<39, 174, 0, 10>>, <<177, 158, 7, 125>>,
    <<68, 147, 15, 240>>, <<210, 163, 8, 135>>, <<104, 242, 1, 30>>, <<254, 194, 6, 105>>,
    <<93, 87, 98, 247>>, <<203, 103, 101, 128>>, <<113, 54, 108, 25>>, <<231, 6, 107, 110>>,
    <<118, 27, 212, 254>>, <<224, 43, 211, 137>>, <<90, 122, 218, 16>>, <<204, 74, 221, 103>>,
    <<111, 223, 185, 249>>, <<249, 239, 190, 142>>, <<67, 190, 183, 23>>, <<213, 142, 176, 96>>,
    <<232, 163, 214, 214>>, <<126, 147, 209, 161>>, <<196, 194, 216, 56>>, <<82, 242, 223, 79>>,
    <<241, 103, 187, 209>>, <<103, 87, 188, 166>>, <<221, 6, 181, 63>>, <<75, 54, 178, 72>>,
    <<218, 43, 13, 216>>, <<76, 27, 10, 175>>, <<246, 74, 3, 54>>, <<96, 122, 4, 65>>,
    <<195, 239, 96, 223>>, <<85, 223, 103, 168>>, <<239, 142, 110, 49>>, <<121, 190, 105, 70>>,
    <<140, 179, 97, 203>>, <<26, 131, 102, 188>>, <<160, 210, 111, 37>>, <<54, 226, 104, 82>>,
    <<149, 119, 12, 204>>, <<3, 71, 11, 187>>, <<185, 22, 2, 34>>, <<47, 38, 5, 85>>,
    <<190, 59, 186, 197>>, <<40, 11, 189, 178>>, <<146, 90, 180, 43>>, <<4, 106, 179, 92>>,
    <<167, 255, 215, 194>>, <<49, 207, 208, 181>>, <<139, 158, 217, 44>>, <<29, 174, 222, 91>>,
    <<176, 194, 100, 155>>, <<38, 242, 99, 236>>, <<156, 163, 106, 117>>, <<10, 147, 109, 2>>,
    <<169, 6, 9, 156>>, <<63, 54, 14, 235>>, <<133, 103, 7, 114>>, <<19, 87, 0, 5>>,
    <<130, 74, 191, 149>>, <<20, 122, 184, 226>>, <<174, 43, 177, 123>>, <<56, 27, 182, 12>>,
    <<155, 142, 210, 146>>, <<13, 190, 213, 229>>, <<183, 239, 220, 124>>, <<33, 223, 219, 11>>,
    <<212, 210, 211, 134>>, <<66, 226, 212, 241>>, <<248, 179, 221, 104>>, <<110, 131, 218, 31>>,
    <<205, 22, 190, 129>>, <<91, 38, 185, 246>>, <<225, 119, 176, 111>>, <<119, 71, 183, 24>>,
    <<230, 90, 8, 136>>, <<112, 106, 15, 255>>, <<202, 59, 6, 102>>, <<92, 11, 1, 17>>,
    <<255, 158, 101, 143>>, <<105, 174, 98, 248>>, <<211, 255, 107, 97>>, <<69, 207, 108, 22>>,
    <<120, 226, 10, 160>>, <<238, 210, 13, 215>>, <<84, 131, 4, 78>>, <<194, 179, 3, 57>>,
    <<97, 38, 103, 167>>, <<247, 22, 96, 208>>, <<77, 71, 105, 73>>, <<219, 119, 110, 62>>,
    <<74, 106, 209, 174>>, <<220, 90, 214, 217>>, <<102, 11, 223, 64>>, <<240, 59, 216, 55>>,
    <<83, 174, 188, 169>>, <<197, 158, 187, 222>>, <<127, 207, 178, 71>>, <<233, 255, 181, 48>>,
    <<28, 242, 189, 189>>, <<138, 194, 186, 202>>, <<48, 147, 179, 83>>, <<166, 163, 180, 36>>,
    <<5, 54, 208, 186>>, <<147, 6, 215, 205>>, <<41, 87, 222, 84>>, <<191, 103, 217, 35>>,
    <<46, 122, 102, 179>>, <<184, 74, 97, 196>>, <<2, 27, 104, 93>>, <<148, 43, 111, 42>>,
    <<55, 190, 11, 180>>, <<161, 142, 12, 195>>, <<27, 223, 5, 90>>, <<141, 239, 2, 45>>
  >>

\* crc = CRC32_TABLE[(crc as u8 ^ byte)] ^ (crc >> 8)
Crc32Step(crc, byte) ==
  LET t == CRC32_TABLE[XorByte(crc[1], byte) + 1]
  IN  <<XorByte(t[1], crc[2]), XorByte(t[2], crc[3]), XorByte(t[3], crc[4]), t[4]>>

\* for byte in buf, over buf[lo..hi]: the left half is folded, once, before
\* the right half takes its crc, which keeps the nesting logarithmic in the
\* length.
RECURSIVE Crc32Fold(_, _, _, _)
Crc32Fold(crc, buf, lo, hi) ==
  IF lo > hi THEN crc
  ELSE IF lo = hi THEN Crc32Step(crc, buf[lo])
  ELSE CHOOSE right \in {Crc32Fold(left, buf, (lo + hi) \div 2 + 1, hi) :
                            left \in {Crc32Fold(crc, buf, lo, (lo + hi) \div 2)}} :
         TRUE

crc32(buf) ==
  CHOOSE chk \in {u32_from_le_bytes(<<255 - crc[1], 255 - crc[2], 255 - crc[3], 255 - crc[4]>>) :
                    crc \in {Crc32Fold(<<255, 255, 255, 255>>, b, 1, Len(b)) : b \in {buf}}} :
    TRUE

(***************************************************************************)
(* The enums and their 16-bit codes (components/common.rs).                *)
(***************************************************************************)
MAGIC == <<17732, 17223>>       \* 1162101575 = 0x4544 * 65536 + 0x4347

Ok(v) == [tag |-> "Ok", v |-> v]

Err(e, args) == [tag |-> "Err", err |-> e, args |-> args]

BlockKinds ==
  {"FileMetadata", "GCode", "SlicerMetadata", "PrinterMetadata", "PrintMetadata", "Thumbnail"}

CompressionAlgorithms == {"None", "Deflate", "Heatshrink11_4", "Heatshrink12_4"}

Checksums == {"None", "Crc32"}

\* Checksum_to_le_bytes writing the code high byte first.
Checksum_to_le_bytes_BigEndian(checksum) ==
  IF checksum = "Crc32" THEN u16_to_be_bytes(1) ELSE u16_to_be_bytes(0)

Checksum_to_le_bytes(checksum) ==
  CASE checksum = "None" -> u16_to_be_bytes(0)
    [] checksum = "Crc32" -> u16_to_le_bytes(1)

Encoding_to_le_bytes(encoding) ==
  CASE encoding = "Ini" -> u16_to_le_bytes(0)
    [] encoding = "Ascii" -> u16_to_le_bytes(0)
    [] encoding = "Meatpack" -> u16_to_le_bytes(1)
    [] encoding = "MeatpackWithComments" -> u16_to_le_bytes(2)
    [] encoding = "Png" -> u16_to_le_bytes(0)
    [] encoding = "Jpg" -> u16_to_le_bytes(1)
    [] encoding = "Qoi" -> u16_to_le_bytes(2)

Encoding_from_le_bytes(bytes, kind) ==
  LET encoding == u16_from_le_bytes(bytes)
  IN  CASE kind = "FileMetadata" /\ encoding = 0 -> Ok("Ini")
        [] kind = "SlicerMetadata" /\ encoding = 0 -> Ok("Ini")
        [] kind = "PrintMetadata" /\ encoding = 0 -> Ok("Ini")
        [] kind = "PrinterMetadata" /\ encoding = 0 -> Ok("Ini")
        [] kind = "GCode" /\ encoding = 0 -> Ok("Ascii")
        [] kind = "GCode" /\ encoding = 1 -> Ok("Meatpack")
        [] kind = "GCode" /\ encoding = 2 -> Ok("MeatpackWithComments")
        [] kind = "Thumbnail" /\ encoding = 0 -> Ok("Png")
        [] kind = "Thumbnail" /\ encoding = 1 -> Ok("Jpg")
        [] kind = "Thumbnail" /\ encoding = 2 -> Ok("Qoi")
        [] OTHER -> Err("UnsupportedEncoding", <<encoding>>)

BlockKind_new(value) ==
  CASE value = 0 -> Ok("FileMetadata")
    [] value = 1 -> Ok("GCode")
    [] value = 2 -> Ok("SlicerMetadata")
    [] value = 3 -> Ok("PrinterMetadata")
    [] value = 4 -> Ok("PrintMetadata")
    [] value = 5 -> Ok("Thumbnail")
    [] OTHER -> Err("UnsupportedBlockKind", <<value>>)

BlockKind_to_le_bytes(kind) ==
  CASE kind = "FileMetadata" -> u16_to_le_bytes(0)
    [] kind = "GCode" -> u16_to_le_bytes(1)
    [] kind = "SlicerMetadata" -> u16_to_le_bytes(2)
    [] kind = "PrinterMetadata" -> u16_to_le_bytes(3)
    [] kind = "PrintMetadata" -> u16_to_le_bytes(4)
    [] kind = "Thumbnail" -> u16_to_le_bytes(5)

BlockKind_from_le_bytes(bytes) == BlockKind_new(u16_from_le_bytes(bytes))

CompressionAlgorithm_new(value) ==
  CASE value = 0 -> Ok("None")
    [] value = 1 -> Ok("Deflate")
    [] value = 2 -> Ok("Heatshrink11_4")
    [] value = 3 -> Ok("Heatshrink12_4")
    [] OTHER -> Err("UnsupportedCompressionAlgorithm", <<value>>)

CompressionAlgorithm_to_le_bytes(compression) ==
  CASE compression = "None" -> u16_to_le_bytes(0)
    [] compression = "Deflate" -> u16_to_le_bytes(1)
    [] compression = "Heatshrink11_4" -> u16_to_le_bytes(2)
    [] compression = "Heatshrink12_4" -> u16_to_le_bytes(3)

CompressionAlgorithm_from_le_bytes(bytes) ==
  CompressionAlgorithm_new(u16_from_le_bytes(bytes))

(***************************************************************************)
(* src/common.rs, the earlier module of the same enums.                    *)
(***************************************************************************)
common_BlockKind_new(value) ==
  CASE value = 0 -> Ok("FileMetadata")
    [] value = 1 -> Ok("GCode")
    [] value = 2 -> Ok("SlicerMetadata")
    [] value = 3 -> Ok("PrinterMetadata")
    [] value = 4 -> Ok("PrintMetadata")
    [] value = 5 -> Ok("Thumbnail")
    [] OTHER -> Err("UnsupportedBlockKind", <<value>>)

common_BlockKind_to_le_bytes(kind) ==
  CASE kind = "FileMetadata" -> u16_to_le_bytes(0)
    [] kind = "GCode" -> u16_to_be_bytes(1)
    [] kind = "SlicerMetadata" -> u16_to_le_bytes(1)
    [] kind = "PrinterMetadata" -> u16_to_le_bytes(2)
    [] kind = "PrintMetadata" -> u16_to_le_bytes(3)
    [] kind = "Thumbnail" -> u16_to_le_bytes(4)

common_BlockKind_from_le_bytes(bytes) == common_BlockKind_new(u16_from_le_bytes(bytes))

common_CompressionAlgorithm_new(value) ==
  CASE value = 0 -> Ok("None")
    [] value = 1 -> Ok("Deflate")
    [] value = 2 -> Ok("Heatshrink11_4")
    [] value = 3 -> Ok("Heatshrink12_4")
    [] OTHER -> Err("UnsupportedCompressionAlgorithm", <<value>>)

common_CompressionAlgorithm_to_le_bytes(compression) ==
  CASE compression = "None" -> u16_to_le_bytes(0)
    [] compression = "Deflate" -> u16_to_be_bytes(1)
    [] compression = "Heatshrink11_4" -> u16_to_le_bytes(2)
    [] compression = "Heatshrink12_4" -> u16_to_le_bytes(3)

common_CompressionAlgorithm_from_le_bytes(bytes) ==
  common_CompressionAlgorithm_new(u16_from_le_bytes(bytes))

common_Encoding_from_le_bytes(bytes, kind) ==
  LET encoding == u16_from_le_bytes(bytes)
  IN  CASE kind = "FileMetadata" /\ encoding = 0 -> Ok("INI")
        [] kind = "SlicerMetadata" /\ encoding = 0 -> Ok("INI")
        [] kind = "PrintMetadata" /\ encoding = 0 -> Ok("INI")
        [] kind = "PrinterMetadata" /\ encoding = 0 -> Ok("INI")
        [] kind = "GCode" /\ encoding = 0 -> Ok("ASCII")
        [] kind = "GCode" /\ encoding = 1 -> Ok("Meatpack")
        [] kind = "GCode" /\ encoding = 2 -> Ok("MeatpackWithComments")
        [] kind = "Thumbnail" /\ encoding = 0 -> Ok("PNG")
        [] kind = "Thumbnail" /\ encoding = 1 -> Ok("JPG")
        [] kind = "Thumbnail" /\ encoding = 2 -> Ok("QOI")
        [] OTHER -> Err("EncodingError", <<encoding>>)

common_BinaryGcodeChecksum_to_le_bytes(checksum) ==
  IF checksum = "None" THEN <<0, 0>> ELSE <<1, 0>>

(***************************************************************************)
(* src/file_header.rs: FileChecksum and FileHeader.                        *)
(***************************************************************************)
FileChecksum_to_le_bytes(checksum) ==
  IF checksum = "None" THEN <<0, 0>> ELSE <<1, 0>>

FileHeader_new(version, checksum) ==
  [magic |-> MAGIC, version |-> version, checksum |-> checksum]

FileHeader_from_bytes(bytes) ==
  LET magic == u32_from_le_bytes(SubSeq(bytes, 1, 4))
      version == u32_from_le_bytes(SubSeq(bytes, 5, 8))
      checksum_value == u16_from_le_bytes(SubSeq(bytes, 9, 10))
  IN  IF magic # MAGIC THEN Err("FileHeaderError::InvalidMagic", <<>>)
      ELSE IF checksum_value = 1
      THEN Ok([magic |-> magic, version |-> version, checksum |-> "Crc32"])
      ELSE IF checksum_value = 0
      THEN Ok([magic |-> magic, version |-> version, checksum |-> "None"])
      ELSE Err("FileHeaderError::InvalidChecksum", <<>>)

FileHeader_to_bytes(self) ==
  u32_to_le_bytes(self.magic) \o u32_to_le_bytes(self.version)
    \o FileChecksum_to_le_bytes(self.checksum)

(***************************************************************************)
(* The external coders.  miniz_oxide and embedded_heatshrink are not part  *)
(* of the repository; the model stands a run-length coder in for each:     *)
(* a stream of (count, byte) pairs, behind a two-byte header for zlib.     *)
(* What the model keeps is what the callers depend on: the coders are not  *)
(* the identity, the output of a short input can be longer than the input, *)
(* and a stream that is not well formed fails to decode.                   *)
(***************************************************************************)
\* The length of the run that starts at data[i], as far as one byte counts it.
RunLength(data, i) ==
  LET longest == IF Len(data) - i + 1 < 255 THEN Len(data) - i + 1 ELSE 255
      ends == {n \in 1..longest : n = longest \/ data[i + n] # data[i]}
  IN  CHOOSE n \in ends : \A m \in ends : n <= m

\* Where the byte changes from data[i] on, in ascending order.
Changes(data, i) ==
  SelectSeq([k \in 1..(Len(data) - i + 1) |-> i + k - 1],
            LAMBDA j : j = i \/ data[j] # data[j - 1])

\* The (count, byte) pairs of the len equal bytes from data[c] on.
StretchPairs(data, c, len) ==
  [k \in 1..(2 * ((len + 254) \div 255)) |->
     IF k % 2 = 1 THEN RunLength(SubSeq(data, c, c + len - 1), 255 * ((k - 1) \div 2) + 1)
     ELSE data[c]]

\* The pairs of the stretches lo..hi of changes, half by half.
RECURSIVE StretchesPairs(_, _, _, _)
StretchesPairs(data, changes, lo, hi) ==
  IF lo > hi THEN <<>>
  ELSE IF lo = hi
  THEN StretchPairs(data, changes[lo],
                    (IF lo = Len(changes) THEN Len(data) + 1 ELSE changes[lo + 1])
                      - changes[lo])
  ELSE StretchesPairs(data, changes, lo, (lo + hi) \div 2)
         \o StretchesPairs(data, changes, (lo + hi) \div 2 + 1, hi)

\* The (count, byte) pairs of the runs from data[i] on.
RunLengthEncode(data, i) ==
  LET changes == Changes(data, i)
  IN  StretchesPairs(data, changes, 1, Len(changes))

RunLengthWellFormed(stream) ==
  /\ Len(stream) % 2 = 0
  /\ \A i \in 1..Len(stream) : i % 2 = 1 => stream[i] > 0

\* The runs of the pairs lo..hi of a stream, half by half.
RECURSIVE RunLengthRuns(_, _, _)
RunLengthRuns(stream, lo, hi) ==
  IF lo > hi THEN <<>>
  ELSE IF lo = hi THEN [k \in 1..stream[2 * lo - 1] |-> stream[2 * lo]]
  ELSE RunLengthRuns(stream, lo, (lo + hi) \div 2)
         \o RunLengthRuns(stream, (lo + hi) \div 2 + 1, hi)

\* The bytes of a well-formed stream from stream[i] on (i is odd).
RunLengthDecode(stream, i) == RunLengthRuns(stream, (i + 1) \div 2, Len(stream) \div 2)

ZlibHeader == <<120, 218>>

compress_to_vec_zlib(data) == ZlibHeader \o RunLengthEncode(data, 1)

decompress_to_vec_zlib(stream) ==
  IF /\ Len(stream) >= 2
     /\ SubSeq(stream, 1, 2) = ZlibHeader
     /\ RunLengthWellFormed(Drain(stream, 2))
  THEN Ok(RunLengthDecode(Drain(stream, 2), 1))
  ELSE Err("DecodeError", <<"deflate">>)

\* The bytes a HeatshrinkEncoder yields for the whole input.
HeatshrinkEncoder_stream(input) == RunLengthEncode(input, 1)

\* The bytes a HeatshrinkDecoder yields for the whole input, as far as it decodes.
HeatshrinkDecoder_stream(input) ==
  IF RunLengthWellFormed(input) THEN RunLengthDecode(input, 1) ELSE <<>>

(***************************************************************************)
(* shrink: the pump around the encoder.  The output buffer is as long as   *)
(* the input.  Every input is sunk and polled (the encoder holds its       *)
(* output until finish), then finish reports More and poll is handed the   *)
(* rest of the output buffer.  A poll that cannot hand over the whole      *)
(* stream (More, or an empty output slice) is not Empty(sz), which shrink  *)
(* turns into SerialiseError.                                              *)
(***************************************************************************)
shrink(window, lookahead, input) ==
  LET stream == HeatshrinkEncoder_stream(input)
  IN  IF Len(input) = 0 \/ Len(stream) > Len(input)
      THEN Err("SerialiseError", <<"heatshrink_03">>)
      ELSE Ok(stream)

(***************************************************************************)
(* The serialisers (components/serialiser.rs).                             *)
(***************************************************************************)
serialise_file_header(version, checksum) ==
  u32_to_le_bytes(MAGIC) \o u32_to_le_bytes(version) \o Checksum_to_le_bytes(checksum)

\* The CRC trailer of serialise_block.
\* WithCrc with the checksum written high byte first.
WithCrc_BigEndian(block, checksum) ==
  IF checksum = "Crc32"
  THEN block \o <<crc32(block)[1] \div 256, crc32(block)[1] % 256,
                  crc32(block)[2] \div 256, crc32(block)[2] % 256>>
  ELSE block

WithCrc(block, checksum) ==
  IF checksum = "Crc32" THEN block \o u32_to_le_bytes(crc32(block)) ELSE block

serialise_block(kind, compression, encoding, checksum, additional_parameters, data) ==
  LET header ==
        BlockKind_to_le_bytes(kind) \o CompressionAlgorithm_to_le_bytes(compression)
          \o u32_to_le_bytes(Wide(Len(data)))
      parameters == Encoding_to_le_bytes(encoding) \o additional_parameters
      compressed ==
        CASE compression = "None" -> Ok(data)
          [] compression = "Deflate" -> Ok(compress_to_vec_zlib(data))
          [] compression = "Heatshrink11_4" -> shrink(11, 4, data)
          [] compression = "Heatshrink12_4" -> shrink(12, 4, data)
  IN  IF compressed.tag = "Err" THEN compressed
      ELSE IF compression = "None"
      THEN Ok(WithCrc(header \o parameters \o data, checksum))
      ELSE Ok(WithCrc(header \o u32_to_le_bytes(Wide(Len(compressed.v)))
                        \o parameters \o compressed.v, checksum))

(***************************************************************************)
(* src/serialiser.rs, the earlier BlockSerialiser, on the enums of         *)
(* src/common.rs.                                                          *)
(***************************************************************************)
common_Encoding_to_le_bytes(encoding) ==
  CASE encoding = "INI" -> u16_to_le_bytes(0)
    [] encoding = "ASCII" -> u16_to_le_bytes(0)
    [] encoding = "Meatpack" -> u16_to_le_bytes(1)
    [] encoding = "MeatpackWithComments" -> u16_to_le_bytes(2)
    [] encoding = "PNG" -> u16_to_le_bytes(0)
    [] encoding = "JPG" -> u16_to_le_bytes(1)
    [] encoding = "QOI" -> u16_to_le_bytes(2)

\* The encoding of components/common.rs as src/common.rs names it.
common_Encoding(encoding) ==
  CASE encoding = "Ini" -> "INI"
    [] encoding = "Ascii" -> "ASCII"
    [] encoding = "Png" -> "PNG"
    [] encoding = "Jpg" -> "JPG"
    [] encoding = "Qoi" -> "QOI"
    [] OTHER -> encoding

\* validate_config: a TODO that accepts every configuration.
BlockSerialiser_validate_config(self) == Ok(<<>>)

\* heatshrink: sink_all into a buffer as long as the input.
BlockSerialiser_heatshrink(self, input, window, lookahead) ==
  LET stream == HeatshrinkEncoder_stream(input)
  IN  IF Len(input) = 0 \/ Len(stream) > Len(input) THEN Err("HeatshrinkError", <<>>)
      ELSE Ok(stream)

BlockSerialiser_serialise(self, input) ==
  LET head == common_BlockKind_to_le_bytes(self.kind)
                \o common_CompressionAlgorithm_to_le_bytes(self.compression)
                \o u32_to_le_bytes(Wide(Len(input)))
      c == CASE self.compression = "None" -> Ok(input)
             [] self.compression = "Deflate" -> Ok(compress_to_vec_zlib(input))
             [] self.compression = "Heatshrink11_4" ->
                  BlockSerialiser_heatshrink(self, input, 11, 4)
             [] self.compression = "Heatshrink12_4" ->
                  BlockSerialiser_heatshrink(self, input, 12, 4)
  IN  IF BlockSerialiser_validate_config(self).tag = "Err"
      THEN BlockSerialiser_validate_config(self)
      ELSE IF c.tag = "Err" THEN c
      ELSE IF self.compression = "None" THEN Ok(head \o input)
      ELSE Ok(head \o u32_to_le_bytes(Wide(Len(c.v)))
                \o common_Encoding_to_le_bytes(self.encoding) \o c.v)

(***************************************************************************)
(* The deserialiser (deserialiser.rs).  A Deserialiser is the record       *)
(* [inner, state, checksum]; deserialise returns [r, d]: what the call     *)
(* returns and the Deserialiser it leaves.  A panic (a slice out of range) *)
(* is the result Panic, with the Deserialiser as it was.                   *)
(***************************************************************************)
DeserialiserStates == {"FileHeader", "Block"}

Deserialiser_default == [inner |-> <<>>, state |-> "FileHeader", checksum |-> "None"]

NoResult == [tag |-> "NoResult"]

Panic == [tag |-> "Panic"]

MoreBytesRequired(n) == [tag |-> "MoreBytesRequired", n |-> n]

DeserialisedFileHeader(magic, version, checksum) ==
  [tag |-> "FileHeader", magic |-> magic, version |-> version, checksum |-> checksum]

DeserialisedBlock(kind, data_compressed_len, data_uncompressed_len, compression, encoding, parameters, data) ==
  [tag |-> "Block", kind |-> kind, data_compressed_len |-> data_compressed_len,
   data_uncompressed_len |-> data_uncompressed_len, compression |-> compression,
   encoding |-> encoding, parameters |-> parameters, data |-> data]

\* Return dropping the buffer when the result is an error.
Return_ClearOnErr(r, d) ==
  [r |-> r, d |-> IF r.tag = "Err" THEN [d EXCEPT !.inner = <<>>] ELSE d]

Return(r, d) == [r |-> r, d |-> d]

try_from_slice(N, buf) ==
  IF Len(buf) = N THEN Ok(buf) ELSE Err("TryFromSliceError", <<>>)

\* digest assigning the chunk to the buffer instead of extending the buffer.
digest_Assign(d, buf) == [d EXCEPT !.inner = buf]

\* digest putting the chunk in front of the buffer.
digest_Prepend(d, buf) == [d EXCEPT !.inner = buf \o d.inner]

digest(d, buf) == [d EXCEPT !.inner = d.inner \o buf]

\* reset leaving the buffer as it is.
reset_KeepInner(d) == [d EXCEPT !.state = "FileHeader"]

reset(d) == [d EXCEPT !.inner = <<>>, !.state = "FileHeader"]

\* ChecksumOfCode matching on the low byte of the code only.
ChecksumOfCode_LowByte(checksum_value) ==
  IF checksum_value % 256 = 1 THEN Ok("Crc32")
  ELSE IF checksum_value % 256 = 0 THEN Ok("None")
  ELSE Err("InvalidChecksumType", <<checksum_value>>)

\* The match on the checksum code of the file header.
ChecksumOfCode(checksum_value) ==
  IF checksum_value = 1 THEN Ok("Crc32")
  ELSE IF checksum_value = 0 THEN Ok("None")
  ELSE Err("InvalidChecksumType", <<checksum_value>>)

\* DrainFileHeader clearing the buffer.
DrainFileHeader_Clear(inner) == <<>>

\* self.inner.drain(..10) of deserialise_file_header.
DrainFileHeader(inner) == Drain(inner, 10)

\* ReadVersion keeping the low 16 bits only.
ReadVersion_U16(version_bytes) == <<0, version_bytes[1] + 256 * version_bytes[2]>>

\* let version = u32::from_le_bytes(bytes)
ReadVersion(version_bytes) == u32_from_le_bytes(version_bytes)

deserialise_file_header(d) ==
  IF Len(d.inner) < 10 THEN Return(MoreBytesRequired(Wide(10 - Len(d.inner))), d)
  ELSE
    LET magic_bytes == try_from_slice(4, Slice(d.inner, 0, 4))
        version_bytes == try_from_slice(4, Slice(d.inner, 4, 8))
        checksum_bytes == try_from_slice(2, Slice(d.inner, 8, 10))
    IN  IF magic_bytes.tag = "Err" THEN Return(magic_bytes, d)
        ELSE IF u32_from_le_bytes(magic_bytes.v) # MAGIC
        THEN Return(Err("InvalidMagic", <<>>), d)
        ELSE IF version_bytes.tag = "Err" THEN Return(version_bytes, d)
        ELSE IF checksum_bytes.tag = "Err" THEN Return(checksum_bytes, d)
        ELSE
          LET magic == u32_from_le_bytes(magic_bytes.v)
              version == ReadVersion(version_bytes.v)
              checksum == ChecksumOfCode(u16_from_le_bytes(checksum_bytes.v))
          IN  IF checksum.tag = "Err" THEN Return(checksum, d)
              ELSE Return(DeserialisedFileHeader(magic, version, checksum.v),
                          [inner |-> DrainFileHeader(d.inner), state |-> "Block",
                           checksum |-> checksum.v])

\* BlockProbeLen for the shorter header of an uncompressed block.
BlockProbeLen_Uncompressed == 12 - 4

\* The first length check of deserialise_block: the 12-byte probe.
BlockProbeLen == 12

\* param_len of deserialise_block.
ParamLen(kind) == IF kind = "Thumbnail" THEN 6 ELSE 2

\* block_len of deserialise_block, a usize.
BlockLen(compressed_len, uncompressed_len, param_len, checksum) ==
  LET body ==
        IF compressed_len # None THEN WideAdd(compressed_len[1], 12 + param_len)
        ELSE WideAdd(uncompressed_len, 8 + param_len)
  IN  IF checksum = "Crc32" THEN WideAdd(body, 4) ELSE body

\* The end of the data slice of deserialise_block.
DataEnd(block_len, checksum) == block_len - 4

\* ChecksumDiffers comparing the low 16 bits only.
ChecksumDiffers_Low16(c, chk) == c[2] # chk[2]

\* The test c != chk of the checksum check: c read from the block, chk computed.
ChecksumDiffers(c, chk) == c # chk

\* InvalidChecksum(c, chk)
InvalidChecksum(c, chk) == Err("InvalidChecksum", <<c, chk>>)

\* DrainBlock clearing the buffer.
DrainBlock_Clear(inner, block_len) == <<>>

\* DrainBlock leaving the block in the buffer.
DrainBlock_Keep(inner, block_len) == inner

\* DrainBlock leaving the last four bytes of the block in the buffer.
DrainBlock_KeepChecksum(inner, block_len) == Drain(inner, block_len - 4)

\* self.inner.drain(..block_len) of deserialise_block.
DrainBlock(inner, block_len) == Drain(inner, block_len)

\* deserialise_block from the checksum check on: the whole block is in inner.
BlockBody(d, kind, compression, data_uncompressed_len, data_compressed_len, param_len, block_len) ==
  LET inner == d.inner
      c == u32_from_le_bytes(Slice(inner, block_len - 4, block_len))
      chk == crc32(Slice(inner, 0, block_len - 4))
      param_start == IF data_compressed_len # None THEN 12 ELSE 8
      encoding_bytes == try_from_slice(2, Slice(inner, param_start, param_start + 2))
      encoding == Encoding_from_le_bytes(encoding_bytes.v, kind)
      data_end == DataEnd(block_len, d.checksum)
  IN  IF d.checksum = "Crc32" /\ ~SliceOk(inner, block_len - 4, block_len)
      THEN Return(Panic, d)
      ELSE IF d.checksum = "Crc32" /\ ChecksumDiffers(c, chk)
      THEN Return(InvalidChecksum(c, chk), d)
      ELSE IF ~SliceOk(inner, param_start, param_start + 2) THEN Return(Panic, d)
      ELSE IF encoding_bytes.tag = "Err" THEN Return(encoding_bytes, d)
      ELSE IF encoding.tag = "Err" THEN Return(encoding, d)
      ELSE IF ~SliceOk(inner, param_start, param_start + param_len) THEN Return(Panic, d)
      ELSE IF ~SliceOk(inner, param_start + param_len, data_end) THEN Return(Panic, d)
      ELSE Return(DeserialisedBlock(kind, data_compressed_len, data_uncompressed_len,
                                    compression, encoding.v,
                                    Slice(inner, param_start, param_start + param_len),
                                    Slice(inner, param_start + param_len, data_end)),
                  [d EXCEPT !.inner = DrainBlock(inner, block_len)])

deserialise_block(d) ==
  IF Len(d.inner) < BlockProbeLen
  THEN Return(MoreBytesRequired(Wide(BlockProbeLen - Len(d.inner))), d)
  ELSE
    LET inner == d.inner
        kind == BlockKind_from_le_bytes(Slice(inner, 0, 2))
        compression == CompressionAlgorithm_from_le_bytes(Slice(inner, 2, 4))
        data_uncompressed_len == u32_from_le_bytes(Slice(inner, 4, 8))
    IN  IF kind.tag = "Err" THEN Return(kind, d)
        ELSE IF compression.tag = "Err" THEN Return(compression, d)
        ELSE
          LET data_compressed_len ==
                IF compression.v = "None" THEN None
                ELSE Some(u32_from_le_bytes(Slice(inner, 8, 12)))
              param_len == ParamLen(kind.v)
              block_len ==
                BlockLen(data_compressed_len, data_uncompressed_len, param_len, d.checksum)
          IN  IF WideLess(Wide(Len(inner)), block_len)
              THEN Return(MoreBytesRequired(WideSub(block_len, Wide(Len(inner)))), d)
              ELSE BlockBody(d, kind.v, compression.v, data_uncompressed_len,
                             data_compressed_len, param_len, WideToInt(block_len))

(***************************************************************************)
(* usize is as wide as the target's pointers, and an addition that does    *)
(* not fit panics where overflow checks are compiled in and wraps where    *)
(* they are not.  deserialise_block_on is deserialise_block on a target;   *)
(* the sum of block_len is the only usize arithmetic on a length read from *)
(* the block.                                                              *)
(***************************************************************************)
Targets ==
  {[bits |-> 64, overflow_checks |-> TRUE],
   [bits |-> 32, overflow_checks |-> TRUE],
   [bits |-> 32, overflow_checks |-> FALSE]}

\* The sum does not fit the target's usize.
BlockLenOverflows(target, block_len) == target.bits = 32 /\ block_len[1] >= 65536

\* The sum as the target's usize holds it.
BlockLenOn(target, block_len) ==
  IF target.bits = 32 THEN <<block_len[1] % 65536, block_len[2]>> ELSE block_len

deserialise_block_on(d, target) ==
  IF Len(d.inner) < BlockProbeLen
  THEN Return(MoreBytesRequired(Wide(BlockProbeLen - Len(d.inner))), d)
  ELSE
    LET inner == d.inner
        kind == BlockKind_from_le_bytes(Slice(inner, 0, 2))
        compression == CompressionAlgorithm_from_le_bytes(Slice(inner, 2, 4))
        data_uncompressed_len == u32_from_le_bytes(Slice(inner, 4, 8))
    IN  IF kind.tag = "Err" THEN Return(kind, d)
        ELSE IF compression.tag = "Err" THEN Return(compression, d)
        ELSE
          LET data_compressed_len ==
                IF compression.v = "None" THEN None
                ELSE Some(u32_from_le_bytes(Slice(inner, 8, 12)))
              param_len == ParamLen(kind.v)
              sum == BlockLen(data_compressed_len, data_uncompressed_len, param_len, d.checksum)
              block_len == BlockLenOn(target, sum)
          IN  IF BlockLenOverflows(target, sum) /\ target.overflow_checks
              THEN Return(Panic, d)
              ELSE IF WideLess(Wide(Len(inner)), block_len)
              THEN Return(MoreBytesRequired(WideSub(block_len, Wide(Len(inner)))), d)
              ELSE BlockBody(d, kind.v, compression.v, data_uncompressed_len,
                             data_compressed_len, param_len, WideToInt(block_len))

deserialise(d) ==
  IF d.state = "FileHeader" THEN deserialise_file_header(d) ELSE deserialise_block(d)

(***************************************************************************)
(* DeserialisedBlock::decompress and unshrink.  unshrink's output buffer   *)
(* is uncompressed_len zero bytes, filled from the front and returned      *)
(* whole.  When the decoder yields more than the buffer holds the pump     *)
(* goes on polling a full buffer; what the decoder answers then is not     *)
(* the repository's and is left open as the outcome NoReturn.              *)
(***************************************************************************)
unshrink(input, uncompressed_len, window, lookahead) ==
  LET stream == HeatshrinkDecoder_stream(input)
  IN  IF Len(stream) > uncompressed_len THEN [tag |-> "NoReturn"]
      ELSE Ok(stream \o [k \in 1..(uncompressed_len - Len(stream)) |-> 0])

decompress(b) ==
  IF b.compression = "None" THEN Ok(b.data)
  ELSE IF b.compression = "Deflate" THEN decompress_to_vec_zlib(b.data)
  ELSE IF b.compression = "Heatshrink11_4"
  THEN unshrink(b.data, WideToInt(b.data_uncompressed_len), 11, 4)
  ELSE unshrink(b.data, WideToInt(b.data_uncompressed_len), 12, 4)

(***************************************************************************)
(* The text converter (src/convert.rs) and the rendering of a block as     *)
(* text (DeserialisedBlock::to_ascii).  Texts are byte sequences; the      *)
(* literals of the source are written out byte by byte.                    *)
(***************************************************************************)
\* "; [FILE_METADATA_START]\n"
FILE_METADATA_START ==
  <<59, 32, 91, 70, 73, 76, 69, 95, 77, 69, 84, 65, 68, 65, 84, 65, 95, 83,
    84, 65, 82, 84, 93, 10>>

\* "\n; [FILE_METADATA_END]\n"
FILE_METADATA_END ==
  <<10, 59, 32, 91, 70, 73, 76, 69, 95, 77, 69, 84, 65, 68, 65, 84, 65, 95,
    69, 78, 68, 93, 10>>

\* "; [PRINTER_METADATA_START]\n"
PRINTER_METADATA_START ==
  <<59, 32, 91, 80, 82, 73, 78, 84, 69, 82, 95, 77, 69, 84, 65, 68, 65, 84,
    65, 95, 83, 84, 65, 82, 84, 93, 10>>

\* "\n; [PRINTER_METADATA_END]\n"
PRINTER_METADATA_END ==
  <<10, 59, 32, 91, 80, 82, 73, 78, 84, 69, 82, 95, 77, 69, 84, 65, 68, 65,
    84, 65, 95, 69, 78, 68, 93, 10>>

\* "; [PRINT_METADATA_START]\n"
PRINT_METADATA_START ==
  <<59, 32, 91, 80, 82, 73, 78, 84, 95, 77, 69, 84, 65, 68, 65, 84, 65, 95,
    83, 84, 65, 82, 84, 93, 10>>

\* "\n; [PRINT_METADATA_END]\n"
PRINT_METADATA_END ==
  <<10, 59, 32, 91, 80, 82, 73, 78, 84, 95, 77, 69, 84, 65, 68, 65, 84, 65,
    95, 69, 78, 68, 93, 10>>

\* "; [SLICER_METADATA_START]\n"
SLICER_METADATA_START ==
  <<59, 32, 91, 83, 76, 73, 67, 69, 82, 95, 77, 69, 84, 65, 68, 65, 84, 65,
    95, 83, 84, 65, 82, 84, 93, 10>>

\* "\n; [SLICER_METADATA_END]\n"
SLICER_METADATA_END ==
  <<10, 59, 32, 91, 83, 76, 73, 67, 69, 82, 95, 77, 69, 84, 65, 68, 65, 84,
    65, 95, 69, 78, 68, 93, 10>>

\* "; [THUMBNAIL_START]\n"
THUMBNAIL_START ==
  <<59, 32, 91, 84, 72, 85, 77, 66, 78, 65, 73, 76, 95, 83, 84, 65, 82, 84,
    93, 10>>

\* "; [THUMBNAIL_END]\n"
THUMBNAIL_END ==
  <<59, 32, 91, 84, 72, 85, 77, 66, 78, 65, 73, 76, 95, 69, 78, 68, 93, 10>>

\* "; [GCODE_START]\n"
GCODE_START ==
  <<59, 32, 91, 71, 67, 79, 68, 69, 95, 83, 84, 65, 82, 84, 93, 10>>

\* "; [GCODE_END]\n"
GCODE_END ==
  <<59, 32, 91, 71, 67, 79, 68, 69, 95, 69, 78, 68, 93, 10>>

\* "; thumbnail begin "
thumbnail_begin_line ==
  <<59, 32, 116, 104, 117, 109, 98, 110, 97, 105, 108, 32, 98, 101, 103, 105,
    110, 32>>

\* "; thumbnail_JPG begin "
thumbnail_JPG_begin_line ==
  <<59, 32, 116, 104, 117, 109, 98, 110, 97, 105, 108, 95, 74, 80, 71, 32,
    98, 101, 103, 105, 110, 32>>

\* "; thumbnail_QOI begin "
thumbnail_QOI_begin_line ==
  <<59, 32, 116, 104, 117, 109, 98, 110, 97, 105, 108, 95, 81, 79, 73, 32,
    98, 101, 103, 105, 110, 32>>

\* "; thumbnail end \n;\n"
thumbnail_end_line ==
  <<59, 32, 116, 104, 117, 109, 98, 110, 97, 105, 108, 32, 101, 110, 100, 32,
    10, 59, 10>>

\* "; thumbnail_JPG end \n;\n"
thumbnail_JPG_end_line ==
  <<59, 32, 116, 104, 117, 109, 98, 110, 97, 105, 108, 95, 74, 80, 71, 32,
    101, 110, 100, 32, 10, 59, 10>>

\* "; thumbnail_QOI end \n;\n"
thumbnail_QOI_end_line ==
  <<59, 32, 116, 104, 117, 109, 98, 110, 97, 105, 108, 95, 81, 79, 73, 32,
    101, 110, 100, 32, 10, 59, 10>>

\* "thumbnail begin"
thumbnail_begin ==
  <<116, 104, 117, 109, 98, 110, 97, 105, 108, 32, 98, 101, 103, 105, 110>>

\* "; thumbnail end"
thumbnail_end ==
  <<59, 32, 116, 104, 117, 109, 98, 110, 97, 105, 108, 32, 101, 110, 100>>

\* "; generated by"
generated_by ==
  <<59, 32, 103, 101, 110, 101, 114, 97, 116, 101, 100, 32, 98, 121>>

\* "; printer_model"
printer_model ==
  <<59, 32, 112, 114, 105, 110, 116, 101, 114, 95, 109, 111, 100, 101, 108>>

\* "; prusaslicer_config = begin"
prusaslicer_config_begin ==
  <<59, 32, 112, 114, 117, 115, 97, 115, 108, 105, 99, 101, 114, 95, 99, 111,
    110, 102, 105, 103, 32, 61, 32, 98, 101, 103, 105, 110>>

\* "; prusaslicer_config = end"
prusaslicer_config_end ==
  <<59, 32, 112, 114, 117, 115, 97, 115, 108, 105, 99, 101, 114, 95, 99, 111,
    110, 102, 105, 103, 32, 61, 32, 101, 110, 100>>

\* "M73 P0"
M73_P0 ==
  <<77, 55, 51, 32, 80, 48>>

\* "M73 P100 R0\n"
M73_P100_R0 ==
  <<77, 55, 51, 32, 80, 49, 48, 48, 32, 82, 48, 10>>

\* "ABCDEFGHIJKLMNOPQRSTUVWXYZabcdefghijklmnopqrstuvwxyz0123456789+/"
BASE64_ALPHABET ==
  <<65, 66, 67, 68, 69, 70, 71, 72, 73, 74, 75, 76, 77, 78, 79, 80, 81, 82,
    83, 84, 85, 86, 87, 88, 89, 90, 97, 98, 99, 100, 101, 102, 103, 104, 105,
    106, 107, 108, 109, 110, 111, 112, 113, 114, 115, 116, 117, 118, 119,
    120, 121, 122, 48, 49, 50, 51, 52, 53, 54, 55, 56, 57, 43, 47>>

\* "0123456789. \nGX"
MeatpackTable ==
  <<48, 49, 50, 51, 52, 53, 54, 55, 56, 57, 46, 32, 10, 71, 88>>

\* u16::MAX
u16_MAX == 65535

\* str::find: the offset of the first occurrence of the needle, if any.
find(haystack, needle) ==
  LET hits == {i \in 0..(Len(haystack) - Len(needle)) :
                 /\ haystack[i + 1] = needle[1]
                 /\ SubSeq(haystack, i + 1, i + Len(needle)) = needle}
  IN  IF hits = {} THEN None ELSE Some(CHOOSE i \in hits : \A j \in hits : i <= j)

\* u16 / usize to_string (format!("{}")).
RECURSIVE to_string(_)
to_string(n) == IF n < 10 THEN <<48 + n>> ELSE to_string(n \div 10) \o <<48 + (n % 10)>>

\* BASE64_STANDARD.encode: the base64 crate's standard alphabet with padding.
RECURSIVE BASE64_STANDARD_encode(_)
BASE64_STANDARD_encode(data) ==
  IF data = <<>> THEN <<>>
  ELSE
    LET n == Len(data)
        a == data[1]
        b == IF n >= 2 THEN data[2] ELSE 0
        c == IF n >= 3 THEN data[3] ELSE 0
    IN  <<BASE64_ALPHABET[(a \div 4) + 1],
          BASE64_ALPHABET[(a % 4) * 16 + (b \div 16) + 1],
          IF n >= 2 THEN BASE64_ALPHABET[(b % 16) * 4 + (c \div 64) + 1] ELSE 61,
          IF n >= 3 THEN BASE64_ALPHABET[(c % 64) + 1] ELSE 61>>
          \o BASE64_STANDARD_encode(SubSeq(data, 4, n))

(***************************************************************************)
(* meatpack is not part of the repository.  Unpacker::unpack_slice is      *)
(* stood in for by the packed half of the format: two characters a byte,   *)
(* low nibble first, from a table of 15; a nibble of 15 is refused.        *)
(***************************************************************************)
RECURSIVE Unpacker_unpack_slice(_, _)
Unpacker_unpack_slice(data, buf) ==
  IF data = <<>> THEN Ok(buf)
  ELSE IF data[1] % 16 = 15 \/ data[1] \div 16 = 15 THEN Err("MeatpackError", <<>>)
  ELSE Unpacker_unpack_slice(Tail(data),
                             buf \o <<MeatpackTable[(data[1] % 16) + 1],
                                      MeatpackTable[(data[1] \div 16) + 1]>>)

\* str::from_utf8(..).is_ok(), as far as lead and continuation bytes go.
RECURSIVE Utf8From(_, _)
Utf8From(bytes, i) ==
  IF i > Len(bytes) THEN TRUE
  ELSE
    LET b == bytes[i]
        n == CASE b < 128 -> 1
               [] b \in 194..223 -> 2
               [] b \in 224..239 -> 3
               [] b \in 240..244 -> 4
               [] OTHER -> 0
    IN  /\ n > 0
        /\ i + n - 1 <= Len(bytes)
        /\ \A k \in 1..(n - 1) : bytes[i + k] \in 128..191
        /\ Utf8From(bytes, i + n)

from_utf8_is_ok(bytes) ==
  LET high == {i \in 1..Len(bytes) : bytes[i] >= 128}
  IN  high = {} \/ Utf8From(bytes, CHOOSE i \in high : \A j \in high : i <= j)

\* The windows(2) loop of to_ascii and the push of the last byte: a newline
\* that no ';' follows is written as "\n; ".
RECURSIVE CommentLines(_, _)
CommentLines(data, i) ==
  IF i >= Len(data) THEN <<data[Len(data)]>>
  ELSE (IF data[i] = 10 /\ data[i + 1] # 59 THEN <<10, 59, 32>> ELSE <<data[i]>>)
         \o CommentLines(data, i + 1)

\* metadata_to_ascii without the "; " before a payload that starts otherwise.
metadata_to_ascii_NoPrefix(data, buf, start_line, end_line) ==
  IF data = <<>> THEN Panic
  ELSE Ok(buf \o start_line \o CommentLines(data, 1) \o end_line)

\* The arm of to_ascii for the four metadata kinds; data[0] of an empty
\* payload is out of bounds.
metadata_to_ascii(data, buf, start_line, end_line) ==
  IF data = <<>> THEN Panic
  ELSE Ok(buf \o start_line \o (IF data[1] # 59 THEN <<59, 32>> ELSE <<>>)
            \o CommentLines(data, 1) \o end_line)

\* r.chunks(78), each written as "; ", the chunk and a newline.
RECURSIVE ThumbnailLines(_)
ThumbnailLines(r) ==
  IF r = <<>> THEN <<>>
  ELSE <<59, 32>> \o SubSeq(r, 1, IF Len(r) < 78 THEN Len(r) ELSE 78) \o <<10>>
         \o ThumbnailLines(SubSeq(r, 79, Len(r)))

\* thumbnail_to_ascii with the length of the picture for that of its Base64.
thumbnail_to_ascii_PictureLength(self, data, buf) ==
  IF ~SliceOk(self.parameters, 2, 4) \/ ~SliceOk(self.parameters, 4, 6) THEN Panic
  ELSE
    LET width == u16_from_le_bytes(Slice(self.parameters, 2, 4))
        height == u16_from_le_bytes(Slice(self.parameters, 4, 6))
        r == BASE64_STANDARD_encode(data)
        size == to_string(width) \o <<120>> \o to_string(height) \o <<32>>
                  \o to_string(Len(data)) \o <<10>>
        header == CASE self.encoding = "Png" -> thumbnail_begin_line \o size
                    [] self.encoding = "Jpg" -> thumbnail_JPG_begin_line \o size
                    [] self.encoding = "Qoi" -> thumbnail_QOI_begin_line \o size
                    [] OTHER -> <<>>
        footer == CASE self.encoding = "Png" -> thumbnail_end_line
                    [] self.encoding = "Jpg" -> thumbnail_JPG_end_line
                    [] self.encoding = "Qoi" -> thumbnail_QOI_end_line
                    [] OTHER -> <<>>
    IN  Ok(buf \o THUMBNAIL_START \o header \o ThumbnailLines(r) \o footer \o THUMBNAIL_END)

thumbnail_to_ascii(self, data, buf) ==
  IF ~SliceOk(self.parameters, 2, 4) \/ ~SliceOk(self.parameters, 4, 6) THEN Panic
  ELSE
    LET width == u16_from_le_bytes(Slice(self.parameters, 2, 4))
        height == u16_from_le_bytes(Slice(self.parameters, 4, 6))
        r == BASE64_STANDARD_encode(data)
        size == to_string(width) \o <<120>> \o to_string(height) \o <<32>>
                  \o to_string(Len(r)) \o <<10>>
        header == CASE self.encoding = "Png" -> thumbnail_begin_line \o size
                    [] self.encoding = "Jpg" -> thumbnail_JPG_begin_line \o size
                    [] self.encoding = "Qoi" -> thumbnail_QOI_begin_line \o size
                    [] OTHER -> <<>>
        footer == CASE self.encoding = "Png" -> thumbnail_end_line
                    [] self.encoding = "Jpg" -> thumbnail_JPG_end_line
                    [] self.encoding = "Qoi" -> thumbnail_QOI_end_line
                    [] OTHER -> <<>>
    IN  Ok(buf \o THUMBNAIL_START \o header \o ThumbnailLines(r) \o footer \o THUMBNAIL_END)

gcode_to_ascii(self, data, buf) ==
  LET unpacked == Unpacker_unpack_slice(data, buf \o GCODE_START)
  IN  CASE self.encoding = "Ascii" -> Ok(buf \o GCODE_START \o data \o GCODE_END)
        [] self.encoding \in {"Meatpack", "MeatpackWithComments"} ->
             IF unpacked.tag = "Err" THEN unpacked ELSE Ok(unpacked.v \o GCODE_END)
        [] OTHER -> Ok(buf \o GCODE_START \o GCODE_END)

\* DeserialisedBlock::to_ascii: the buffer extended, an error, or a panic
\* (decompress().unwrap() on a block that does not decompress).
to_ascii(self, buf) ==
  LET decompressed == decompress(self)
  IN  IF decompressed.tag = "NoReturn" THEN decompressed
      ELSE IF decompressed.tag = "Err" THEN Panic
      ELSE
        CASE self.kind = "FileMetadata" ->
               metadata_to_ascii(decompressed.v, buf, FILE_METADATA_START, FILE_METADATA_END)
          [] self.kind = "PrinterMetadata" ->
               metadata_to_ascii(decompressed.v, buf, PRINTER_METADATA_START,
                                 PRINTER_METADATA_END)
          [] self.kind = "PrintMetadata" ->
               metadata_to_ascii(decompressed.v, buf, PRINT_METADATA_START,
                                 PRINT_METADATA_END)
          [] self.kind = "SlicerMetadata" ->
               metadata_to_ascii(decompressed.v, buf, SLICER_METADATA_START,
                                 SLICER_METADATA_END)
          [] self.kind = "Thumbnail" -> thumbnail_to_ascii(self, decompressed.v, buf)
          [] self.kind = "GCode" -> gcode_to_ascii(self, decompressed.v, buf)

\* The loop of binary_to_ascii and the from_utf8(..).unwrap() after it.
RECURSIVE binary_to_ascii_loop(_, _)
binary_to_ascii_loop(deserialiser, out) ==
  LET o == deserialise(deserialiser)
      written == to_ascii(o.r, out)
  IN  CASE o.r.tag = "Err" -> o.r
        [] o.r.tag = "Panic" -> Panic
        [] o.r.tag = "FileHeader" -> binary_to_ascii_loop(o.d, out)
        [] o.r.tag = "Block" ->
             IF written.tag = "Ok" THEN binary_to_ascii_loop(o.d, written.v) ELSE written
        [] o.r.tag = "MoreBytesRequired" -> IF from_utf8_is_ok(out) THEN Ok(out) ELSE Panic

binary_to_ascii(binary) == binary_to_ascii_loop(digest(Deserialiser_default, binary), <<>>)

\* The scan for thumbnails of ascii_to_binary: no block is packed.
RECURSIVE find_thumbnails(_)
find_thumbnails(inner) ==
  LET start == find(inner, thumbnail_begin)
      end == find(Drain(inner, start[1]), thumbnail_end)
  IN  IF start = None THEN Ok(<<>>)
      ELSE IF end = None THEN Err("SerialiseError", <<>>)
      ELSE find_thumbnails(Drain(inner, end[1]))

\* The first of ascii.lines() that starts with "; generated by", as a
\* FileMetadata block.
file_metadata(ascii) ==
  LET starts == {i \in 0..(Len(ascii) - Len(generated_by)) :
                   /\ i = 0 \/ ascii[i] = 10
                   /\ SubSeq(ascii, i + 1, i + Len(generated_by)) = generated_by}
      start == CHOOSE i \in starts : \A j \in starts : i <= j
      newlines == {j \in (start + 1)..Len(ascii) : ascii[j] = 10}
      newline == CHOOSE i \in newlines : \A j \in newlines : i <= j
      end == IF newlines = {} THEN Len(ascii)
             ELSE IF ascii[newline - 1] = 13 THEN newline - 2
             ELSE newline - 1
  IN  IF starts = {} THEN Ok(<<>>)
      ELSE serialise_block("FileMetadata", "None", "Ini", "Crc32", <<>>,
                           SubSeq(ascii, start + 1, end))

\* A section from its start marker to the end of the needle that follows,
\* as a block: nothing without the start marker, an error without the needle.
section(ascii, marker, needle, kind, compression) ==
  LET start == find(ascii, marker)
      end == find(Drain(ascii, start[1]), needle)
  IN  IF start = None THEN Ok(<<>>)
      ELSE IF end = None THEN Err("SerialiseError", <<>>)
      ELSE serialise_block(kind, compression, "Ini", "Crc32", <<>>,
                           Slice(ascii, start[1], start[1] + end[1] + Len(needle)))

\* Chunk without the newline it is encoded at.
Chunk_WithoutNewline(gcode, s, first) == SubSeq(gcode, s, first - 1)

\* The chunk when it is encoded: the bytes pushed since the last was cleared.
Chunk(gcode, s, first) == SubSeq(gcode, s, first)

\* The chunks of the G-code loop: a chunk that starts at gcode[s] (from 1)
\* is encoded at the first newline at which u16::MAX - (chunk.len() as u16)
\* is below 100, and what remains at the end is one more chunk.
RECURSIVE gcode_chunks(_, _)
gcode_chunks(gcode, s) ==
  LET flush == {i \in s..Len(gcode) :
                  gcode[i] = 10 /\ u16_MAX - ((i - s + 1) % 65536) < 100}
      first == CHOOSE i \in flush : \A j \in flush : i <= j
  IN  IF flush = {} THEN (IF s > Len(gcode) THEN <<>> ELSE <<SubSeq(gcode, s, Len(gcode))>>)
      ELSE <<Chunk(gcode, s, first)>> \o gcode_chunks(gcode, first + 1)

RECURSIVE gcode_blocks(_)
gcode_blocks(chunks) ==
  IF chunks = <<>> THEN Ok(<<>>)
  ELSE
    LET block == serialise_block("GCode", "Heatshrink11_4", "Ascii", "Crc32", <<>>,
                                 Head(chunks))
        rest == gcode_blocks(Tail(chunks))
    IN  IF block.tag = "Err" THEN block
        ELSE IF rest.tag = "Err" THEN rest
        ELSE Ok(block.v \o rest.v)

\* The G-code of ascii_to_binary: without "M73 P0", or without the needle
\* after it, no block and no error.
gcode_section(ascii) ==
  LET start == find(ascii, M73_P0)
      end == find(Drain(ascii, start[1]), M73_P100_R0)
  IN  IF start = None \/ end = None THEN Ok(<<>>)
      ELSE gcode_blocks(
             gcode_chunks(Slice(ascii, start[1], start[1] + end[1] + Len(M73_P100_R0)), 1))

\* ascii_to_binary with the G-code before the metadata.
ascii_to_binary_GcodeFirst(ascii) ==
  LET header == serialise_file_header(Wide(1), "Crc32")
      thumbnails == find_thumbnails(ascii)
      file == file_metadata(ascii)
      printer == section(ascii, printer_model, <<10, 10>>, "PrinterMetadata", "None")
      slicer == section(ascii, prusaslicer_config_begin, prusaslicer_config_end,
                        "SlicerMetadata", "Deflate")
      gcode == gcode_section(ascii)
  IN  IF thumbnails.tag = "Err" THEN thumbnails
      ELSE IF file.tag = "Err" THEN file
      ELSE IF printer.tag = "Err" THEN printer
      ELSE IF slicer.tag = "Err" THEN slicer
      ELSE IF gcode.tag = "Err" THEN gcode
      ELSE Ok(header \o gcode.v \o file.v \o printer.v \o slicer.v)

ascii_to_binary(ascii) ==
  LET header == serialise_file_header(Wide(1), "Crc32")
      thumbnails == find_thumbnails(ascii)
      file == file_metadata(ascii)
      printer == section(ascii, printer_model, <<10, 10>>, "PrinterMetadata", "None")
      slicer == section(ascii, prusaslicer_config_begin, prusaslicer_config_end,
                        "SlicerMetadata", "Deflate")
      gcode == gcode_section(ascii)
  IN  IF thumbnails.tag = "Err" THEN thumbnails
      ELSE IF file.tag = "Err" THEN file
      ELSE IF printer.tag = "Err" THEN printer
      ELSE IF slicer.tag = "Err" THEN slicer
      ELSE IF gcode.tag = "Err" THEN gcode
      ELSE Ok(header \o file.v \o printer.v \o slicer.v \o gcode.v)

(***************************************************************************)
(* The streams fed to the deserialiser.  A stream is a file header (as     *)
(* serialise_file_header writes it, or ten bytes with another magic or     *)
(* checksum code) followed by the blocks serialise_block returns for a     *)
(* list of legal blocks, optionally with one byte overwritten.             *)
(***************************************************************************)
\* The payloads: the prefixes of a line of G-code that starts with a run.
Text == <<77, 77, 77, 55, 51, 32, 80, 48>>       \* "MMM73 P0"

Payloads == {SubSeq(Text, 1, n) : n \in 0..MaxPayload}

Versions == {Wide(1), Wide(2), <<65535, 65535>>}

KindsAndEncodings ==
  {<<"FileMetadata", "Ini">>, <<"SlicerMetadata", "Ini">>, <<"PrintMetadata", "Ini">>,
   <<"PrinterMetadata", "Ini">>, <<"GCode", "Ascii">>, <<"GCode", "Meatpack">>,
   <<"GCode", "MeatpackWithComments">>, <<"Thumbnail", "Png">>, <<"Thumbnail", "Jpg">>,
   <<"Thumbnail", "Qoi">>}

\* width and height of a thumbnail, two u16.
ThumbnailSize == u16_to_le_bytes(16) \o u16_to_le_bytes(8)

Block(kind, compression, encoding, data) ==
  [kind |-> kind, compression |-> compression, encoding |-> encoding,
   additional_parameters |-> IF kind = "Thumbnail" THEN ThumbnailSize ELSE <<>>,
   data |-> data]

\* Every kind, encoding and compression with one payload, and every payload
\* as G-code under every compression.
Blocks ==
  {Block(ke[1], c, ke[2], SubSeq(Text, 1, 4)) : ke \in KindsAndEncodings,
                                                 c \in CompressionAlgorithms}
    \cup {Block("GCode", c, "Ascii", data) : c \in CompressionAlgorithms, data \in Payloads}

\* The block that follows at place i of a stream of several blocks.
TailBlock(i) ==
  IF i % 2 = 0 THEN Block("GCode", "Deflate", "Ascii", SubSeq(Text, 1, 2))
  ELSE Block("FileMetadata", "None", "Ini", <<>>)

Serialised(b, checksum) ==
  serialise_block(b.kind, b.compression, b.encoding, checksum, b.additional_parameters,
                  b.data)

\* A first block, then up to MaxBlocks - 1 blocks that follow it.
BlockLists ==
  {<<>>} \cup {[i \in 1..n |-> IF i = 1 THEN b ELSE TailBlock(i)] :
                b \in Blocks, n \in 1..MaxBlocks}

\* The blocks whose serialisation is overwritten one byte at a time.
TamperBlocks ==
  {Block("GCode", "None", "Ascii", SubSeq(Text, 1, 3)),
   Block("Thumbnail", "Deflate", "Png", SubSeq(Text, 1, 2)),
   Block("PrinterMetadata", "Heatshrink11_4", "Ini", SubSeq(Text, 1, 4)),
   Block("GCode", "Heatshrink12_4", "MeatpackWithComments", SubSeq(Text, 1, 3))}

RECURSIVE SerialiseAll(_, _, _)
SerialiseAll(blocks, checksum, i) ==
  IF i > Len(blocks) THEN <<>>
  ELSE Serialised(blocks[i], checksum).v \o SerialiseAll(blocks, checksum, i + 1)

AllSerialise(blocks, checksum) ==
  \A i \in 1..Len(blocks) : Serialised(blocks[i], checksum).tag = "Ok"

\* Ten header bytes as another writer could send them.
Magics == {u32_to_le_bytes(MAGIC), <<72, 67, 68, 69>>, <<71, 67, 68, 70>>}

ChecksumCodes == {<<0, 0>>, <<1, 0>>, <<2, 0>>, <<0, 1>>, <<1, 1>>}

\* buf with the byte at position p (from 1) replaced by v.
Overwrite(buf, p, v) == [buf EXCEPT ![p] = v]

(***************************************************************************)
(* Blocks of another writer: the fields are written as the deserialiser    *)
(* reads them, with any kind, compression and encoding code, any           *)
(* uncompressed size and a right or a wrong CRC.                           *)
(***************************************************************************)
Foreign(kind, compression, encoding, size, payload, crc_ok) ==
  [kind |-> kind, compression |-> compression, encoding |-> encoding, size |-> size,
   payload |-> payload, crc_ok |-> crc_ok]

ForeignBytes(f, checksum) ==
  LET block == u16_to_le_bytes(f.kind) \o u16_to_le_bytes(f.compression)
                 \o u32_to_le_bytes(Wide(f.size))
                 \o (IF f.compression = 0 THEN <<>>
                     ELSE u32_to_le_bytes(Wide(Len(f.payload))))
                 \o u16_to_le_bytes(f.encoding)
                 \o (IF f.kind # 5 THEN <<>>
                     ELSE IF "parameters" \in DOMAIN f THEN f.parameters
                     ELSE ThumbnailSize)
                 \o f.payload
      crc == u32_to_le_bytes(crc32(block))
  IN  IF checksum = "None" THEN block
      ELSE IF f.crc_ok THEN block \o crc
      ELSE block \o <<(crc[1] + 1) % 256, crc[2], crc[3], crc[4]>>

ForeignBlocks ==
  {Foreign(k, 0, e, 5, SubSeq(Text, 1, 5), TRUE) : k \in 0..6, e \in 0..3}
    \cup {Foreign(1, 0, 256, 5, SubSeq(Text, 1, 5), TRUE),
          Foreign(1, 4, 0, 5, SubSeq(Text, 1, 5), TRUE),
          Foreign(1, 0, 0, 5, SubSeq(Text, 1, 5), FALSE)}
    \cup {Foreign(1, 1, 0, n, compress_to_vec_zlib(SubSeq(Text, 1, 5)), TRUE) : n \in {1, 9}}
    \cup {Foreign(4, 2, 0, 9, HeatshrinkEncoder_stream(SubSeq(Text, 1, 5)), TRUE)}

(***************************************************************************)
(* The state: one Deserialiser (inner, state, checksum) and a caller that  *)
(* digests a stream chunk by chunk, calls deserialise and reset.           *)
(*   result  what the last deserialise returned (NoResult after another    *)
(*           operation)                                                    *)
(*   events  the FileHeader and Block results since creation or reset      *)
(*   stream  the bytes the caller feeds; pos: how many of them it has      *)
(*           digested since creation or the last reset                     *)
(*   input   how the stream was made                                       *)
(*   resets  the number of reset calls                                     *)
(***************************************************************************)
VARIABLES inner, state, checksum, result, events, stream, pos, input, resets

vars == <<inner, state, checksum, result, events, stream, pos, input, resets>>

Self == [inner |-> inner, state |-> state, checksum |-> checksum]

Input(version, cs, blocks, header, tamper) ==
  [version |-> version, checksum |-> cs, blocks |-> blocks, header |-> header,
   tamper |-> tamper]

Start(s, in) ==
  /\ inner = Deserialiser_default.inner
  /\ state = Deserialiser_default.state
  /\ checksum = Deserialiser_default.checksum
  /\ result = NoResult
  /\ events = <<>>
  /\ stream = s
  /\ pos = 0
  /\ input = in
  /\ resets = 0

\* A header from serialise_file_header (version 1, as the tests write it) and
\* the blocks of a list.
InitWellFormed ==
  \E version \in {Wide(1)}, cs \in Checksums, blocks \in BlockLists :
    /\ AllSerialise(blocks, cs)
    /\ LET header == serialise_file_header(version, cs)
       IN  Start(header \o SerialiseAll(blocks, cs, 1),
                 Input(version, cs, blocks, header, None))

\* Ten raw header bytes, then one block.
InitRawHeader ==
  \E magic \in Magics, version \in Versions, code \in ChecksumCodes :
    LET header == magic \o u32_to_le_bytes(version) \o code
        blocks == <<Block("GCode", "None", "Ascii", SubSeq(Text, 1, 5))>>
    IN  Start(header \o SerialiseAll(blocks, "Crc32", 1),
              Input(version, "Crc32", blocks, header, None))

\* A Crc32 header, then one block with one of its bytes overwritten.
InitTampered ==
  \E version \in {Wide(1)}, b \in TamperBlocks :
    LET header == serialise_file_header(version, "Crc32")
        bytes == Serialised(b, "Crc32").v
    IN  \E p \in 1..Len(bytes), v \in Byte :
          /\ v # bytes[p]
          /\ Start(header \o Overwrite(bytes, p, v),
                   Input(version, "Crc32", <<b>>, header, Some(<<p, v>>)))

\* A header from serialise_file_header, then one block of another writer.
InitForeign ==
  \E cs \in Checksums, f \in ForeignBlocks :
    LET header == serialise_file_header(Wide(1), cs)
    IN  Start(header \o ForeignBytes(f, cs), Input(Wide(1), cs, <<>>, header, Some(f)))

Init == InitWellFormed \/ InitRawHeader \/ InitForeign

\* The chunk lengths the caller uses with n bytes left: up to MaxChunk, or all.
ChunkLengths(n) == {k \in 0..n : k <= MaxChunk \/ k = n}

\* digest(&stream[pos..pos + n])
Digest ==
  \E n \in ChunkLengths(Len(stream) - pos) :
    /\ result # Panic
    /\ inner' = digest(Self, SubSeq(stream, pos + 1, pos + n)).inner
    /\ pos' = pos + n
    /\ result' = NoResult
    /\ UNCHANGED <<state, checksum, events, stream, input, resets>>

\* digest(&stream): the whole stream in one call.
DigestAll ==
  /\ pos = 0
  /\ inner' = digest(Self, stream).inner
  /\ pos' = Len(stream)
  /\ result' = NoResult
  /\ UNCHANGED <<state, checksum, events, stream, input, resets>>

IsFrame(r) == r.tag \in {"FileHeader", "Block"}

Deserialise ==
  /\ result # Panic
  /\ LET o == deserialise(Self)
     IN  /\ inner' = o.d.inner
         /\ state' = o.d.state
         /\ checksum' = o.d.checksum
         /\ result' = o.r
         /\ events' = IF IsFrame(o.r) THEN Append(events, o.r) ELSE events
  /\ UNCHANGED <<stream, pos, input, resets>>

\* What the caller feeds after a reset: the same stream, or its blocks
\* serialised under the other checksum kind.
Refeed ==
  {input} \cup
    {Input(input.version, cs, input.blocks, serialise_file_header(input.version, cs), None) :
       cs \in {c \in Checksums : /\ input.tamper = None
                                 /\ input.header =
                                      serialise_file_header(input.version, input.checksum)}}

\* reset(); the caller then feeds a stream from its start.
Reset ==
  /\ result # Panic
  /\ resets < MaxResets
  /\ inner' = reset(Self).inner
  /\ state' = reset(Self).state
  /\ checksum' = reset(Self).checksum
  /\ result' = NoResult
  /\ events' = <<>>
  /\ pos' = 0
  /\ resets' = resets + 1
  /\ \E in \in Refeed :
       /\ input' = in
       /\ stream' = IF in = input THEN stream
                    ELSE in.header \o SerialiseAll(in.blocks, in.checksum, 1)

Next == Digest \/ Deserialise \/ Reset

Spec == Init /\ [][Next]_vars

NextWhole == DigestAll \/ Deserialise

SpecTamper == InitTampered /\ [][NextWhole]_vars

(***************************************************************************)
(* The enum codes and the file header on their own: a kind, a compression, *)
(* a checksum kind and a version to encode, and two bytes to decode.  One  *)
(* step encodes, decodes, or encodes and decodes again, with the functions *)
(* of components/common.rs, of the earlier src/common.rs, of the           *)
(* serialiser and of src/file_header.rs; the block that Decode hands to    *)
(* deserialise carries the kind under the two bytes as its encoding code.  *)
(***************************************************************************)
CodeBytes == {<<lo, hi>> : lo \in 0..6, hi \in 0..1}

\* The versions of the streams and one whose four bytes differ.
CodeVersions == Versions \cup {<<258, 772>>}

InitCodes ==
  \E k \in BlockKinds, c \in CompressionAlgorithms, cs \in Checksums,
     v \in CodeVersions, b \in CodeBytes :
    Start(<<>>, [kind |-> k, compression |-> c, checksum |-> cs, version |-> v,
                 bytes |-> b])

EncodeCodes ==
  /\ result = NoResult
  /\ result' =
       [tag |-> "Encoded",
        kind |-> BlockKind_to_le_bytes(input.kind),
        compression |-> CompressionAlgorithm_to_le_bytes(input.compression),
        checksum |-> Checksum_to_le_bytes(input.checksum),
        common_kind |-> common_BlockKind_to_le_bytes(input.kind),
        common_compression |-> common_CompressionAlgorithm_to_le_bytes(input.compression),
        common_checksum |-> common_BinaryGcodeChecksum_to_le_bytes(input.checksum),
        file_checksum |-> FileChecksum_to_le_bytes(input.checksum),
        header |-> serialise_file_header(input.version, input.checksum),
        file_header |-> FileHeader_to_bytes(FileHeader_new(input.version, input.checksum))]
  /\ UNCHANGED <<inner, state, checksum, events, stream, pos, input, resets>>

DecodeCodes ==
  /\ result = NoResult
  /\ result' =
       [tag |-> "Decoded",
        kind |-> BlockKind_from_le_bytes(input.bytes),
        compression |-> CompressionAlgorithm_from_le_bytes(input.bytes),
        encoding |-> Encoding_from_le_bytes(input.bytes, input.kind),
        common_kind |-> common_BlockKind_from_le_bytes(input.bytes),
        common_compression |-> common_CompressionAlgorithm_from_le_bytes(input.bytes),
        common_encoding |-> common_Encoding_from_le_bytes(input.bytes, input.kind),
        block |->
          deserialise(
            [inner |-> ForeignBytes(
                         Foreign(u16_from_le_bytes(BlockKind_to_le_bytes(input.kind)), 0,
                                 u16_from_le_bytes(input.bytes), 5, SubSeq(Text, 1, 5), TRUE),
                         input.checksum),
             state |-> "Block",
             checksum |-> input.checksum]).r]
  /\ UNCHANGED <<inner, state, checksum, events, stream, pos, input, resets>>

RoundTripCodes ==
  /\ result = NoResult
  /\ result' =
       [tag |-> "RoundTrip",
        kind |-> BlockKind_from_le_bytes(BlockKind_to_le_bytes(input.kind)),
        compression |->
          CompressionAlgorithm_from_le_bytes(CompressionAlgorithm_to_le_bytes(input.compression)),
        common_kind |->
          common_BlockKind_from_le_bytes(common_BlockKind_to_le_bytes(input.kind)),
        common_compression |->
          common_CompressionAlgorithm_from_le_bytes(
            common_CompressionAlgorithm_to_le_bytes(input.compression)),
        header |->
          deserialise(digest(Deserialiser_default,
                             serialise_file_header(input.version, input.checksum))).r,
        file_header |->
          FileHeader_from_bytes(
            FileHeader_to_bytes(FileHeader_new(input.version, input.checksum)))]
  /\ UNCHANGED <<inner, state, checksum, events, stream, pos, input, resets>>

NextCodes == EncodeCodes \/ DecodeCodes \/ RoundTripCodes

SpecCodes == InitCodes /\ [][NextCodes]_vars

(***************************************************************************)
(* The head of a block on its own: a parser in block mode whose pending    *)
(* bytes are a block header with a size field from one byte to 2^32 - 1,   *)
(* followed by zero bytes, on a target of either width.  One step is       *)
(* deserialise.                                                            *)
(***************************************************************************)
SizeFields ==
  {<<0, 0>>, <<0, 2>>, <<0, 5>>, <<0, 65535>>, <<1, 0>>, <<32768, 0>>,
   <<65535, 65514>>, <<65535, 65521>>, <<65535, 65526>>, <<65535, 65535>>}

PendingLengths == {12, 14, 17, 22}

BlockHead(kind, compression, size, n) ==
  LET head == u16_to_le_bytes(kind) \o u16_to_le_bytes(compression) \o u32_to_le_bytes(size)
                \o (IF compression = 0 THEN <<>> ELSE u32_to_le_bytes(size))
  IN  head \o [i \in 1..(n - Len(head)) |-> 0]

InitLen ==
  \E kind \in {1, 5}, compression \in {0, 1}, cs \in Checksums, size \in SizeFields,
     n \in PendingLengths, target \in Targets :
    /\ inner = BlockHead(kind, compression, size, n)
    /\ state = "Block"
    /\ checksum = cs
    /\ result = NoResult
    /\ events = <<>>
    /\ stream = BlockHead(kind, compression, size, n)
    /\ pos = n
    /\ input = [kind |-> kind, compression |-> compression, checksum |-> cs, size |-> size,
                target |-> target]
    /\ resets = 0

DeserialiseOn ==
  /\ result = NoResult
  /\ LET o == deserialise_block_on(Self, input.target)
     IN  /\ inner' = o.d.inner
         /\ state' = o.d.state
         /\ checksum' = o.d.checksum
         /\ result' = o.r
         /\ events' = IF IsFrame(o.r) THEN Append(events, o.r) ELSE events
  /\ UNCHANGED <<stream, pos, input, resets>>

NextLen == DeserialiseOn

SpecLen == InitLen /\ [][NextLen]_vars

(***************************************************************************)
(* The block serialisers on their own: every kind, compression, encoding   *)
(* and checksum kind, legal pair or not, with additional parameters of 0,  *)
(* 1 and 4 bytes and a payload.  One step serialises with serialise_block  *)
(* or with the earlier BlockSerialiser, or serialises and feeds a new      *)
(* Deserialiser the file header and the block, calling deserialise three   *)
(* times.                                                                  *)
(***************************************************************************)
Encodings == {"Ini", "Ascii", "Meatpack", "MeatpackWithComments", "Png", "Jpg", "Qoi"}

AdditionalParameters == {<<>>, <<7>>, ThumbnailSize}

BlockPayloads == {<<>>, SubSeq(Text, 1, 4), SubSeq(Text, 1, 5)}

InitBlocks ==
  \E k \in BlockKinds, c \in CompressionAlgorithms, e \in Encodings, cs \in Checksums,
     ap \in AdditionalParameters, data \in BlockPayloads :
    Start(<<>>, [kind |-> k, compression |-> c, encoding |-> e, checksum |-> cs,
                 additional_parameters |-> ap, data |-> data])

SerialiseBlock ==
  /\ result = NoResult
  /\ result' =
       [tag |-> "Serialised",
        out |-> serialise_block(input.kind, input.compression, input.encoding,
                                input.checksum, input.additional_parameters, input.data)]
  /\ UNCHANGED <<inner, state, checksum, events, stream, pos, input, resets>>

BlockSerialiserSerialise ==
  /\ result = NoResult
  /\ result' =
       [tag |-> "BlockSerialiser",
        out |-> BlockSerialiser_serialise(
                  [kind |-> input.kind, compression |-> input.compression,
                   checksum |-> input.checksum, encoding |-> common_Encoding(input.encoding)],
                  input.data)]
  /\ UNCHANGED <<inner, state, checksum, events, stream, pos, input, resets>>

SerialiseAndDeserialise ==
  /\ result = NoResult
  /\ LET out == serialise_block(input.kind, input.compression, input.encoding,
                                input.checksum, input.additional_parameters, input.data)
         fed == digest(Deserialiser_default,
                       serialise_file_header(Wide(1), input.checksum)
                         \o (IF out.tag = "Ok" THEN out.v ELSE <<>>))
         first == deserialise(fed)
         second == deserialise(first.d)
         third == deserialise(second.d)
     IN  /\ result' = [tag |-> "Deserialised", out |-> out, header |-> first.r,
                       block |-> second.r, rest |-> third.r]
         /\ inner' = third.d.inner
         /\ state' = third.d.state
         /\ checksum' = third.d.checksum
  /\ UNCHANGED <<events, stream, pos, input, resets>>

NextBlocks == SerialiseBlock \/ BlockSerialiserSerialise \/ SerialiseAndDeserialise

SpecBlocks == InitBlocks /\ [][NextBlocks]_vars

(***************************************************************************)
(* The converters on their own.  A text is described by its parts, in the  *)
(* order a slicer writes them: a thumbnail, the "; generated by" line,     *)
(* the printer metadata, the slicer configuration and the G-code, each     *)
(* absent, whole or without its end.  The G-code is filled with runs of    *)
(* 'G' (heatshrink refuses what it cannot make smaller): one line that     *)
(* fits a chunk, a line of more than 100 bytes that spans the end of the   *)
(* first 65535 bytes, a region of two chunks after a line that ends in     *)
(* the last 100 of them, or a region of more than 65535 bytes in lines of  *)
(* less than 100.  A binary is a file header and the blocks of another     *)
(* writer.  One step converts the text to binary, deserialises that        *)
(* binary, converts a binary to text, or converts a text to binary and     *)
(* back as examples/serde_file.rs does.                                    *)
(***************************************************************************)
\* n bytes 'G'.
Fill(n) == [k \in 1..n |-> 71]

\* A line that fits a chunk with room to spare.
ShortLine == 40

\* After "M73 P0\n": a line that ends in the last 100 bytes before
\* u16::MAX, and one that ends past u16::MAX.
LineToChunkEnd == u16_MAX - 86

LineOverChunkEnd == u16_MAX + 64

\* The length of a line with its newline, and as many of them as pass
\* u16::MAX bytes.
LineLength == 99

Lines == u16_MAX \div LineLength + 40

ThumbnailTexts == {"none", "png", "jpg", "open"}

SectionTexts == {"none", "closed", "open"}

GcodeTexts == {"none", "closed", "open", "long_line", "two_chunks", "short_lines"}

\* "16x8 4\n; QUJD\n"
ThumbnailBody == <<49, 54, 120, 56, 32, 52, 10, 59, 32, 81, 85, 74, 68, 10>>

ThumbnailText(t) ==
  CASE t = "none" -> <<>>
    [] t = "png" -> thumbnail_begin_line \o ThumbnailBody \o thumbnail_end_line
    [] t = "jpg" -> thumbnail_JPG_begin_line \o ThumbnailBody \o thumbnail_JPG_end_line
    [] t = "open" -> thumbnail_begin_line \o ThumbnailBody

\* "; generated by X\n"
GeneratedText(g) == IF g THEN generated_by \o <<32, 88, 10>> ELSE <<>>

\* "; printer_model = X\n" and the blank line after it.
PrinterText(p) ==
  CASE p = "none" -> <<>>
    [] p = "closed" -> printer_model \o <<32, 61, 32, 88, 10, 10>>
    [] p = "open" -> printer_model \o <<32, 61, 32, 88, 10>>

\* "; prusaslicer_config = begin\n; a = 1\n; prusaslicer_config = end\n"
SlicerText(s) ==
  CASE s = "none" -> <<>>
    [] s = "closed" -> prusaslicer_config_begin \o <<10, 59, 32, 97, 32, 61, 32, 49, 10>>
                         \o prusaslicer_config_end \o <<10>>
    [] s = "open" -> prusaslicer_config_begin \o <<10, 59, 32, 97, 32, 61, 32, 49, 10>>

GcodeText(g) ==
  CASE g = "none" -> <<>>
    [] g = "closed" -> M73_P0 \o <<10>> \o Fill(ShortLine) \o <<10>> \o M73_P100_R0
    [] g = "open" -> M73_P0 \o <<10>> \o Fill(ShortLine) \o <<10>>
    [] g = "long_line" -> M73_P0 \o <<10>> \o Fill(LineOverChunkEnd) \o <<10>> \o M73_P100_R0
    [] g = "two_chunks" -> M73_P0 \o <<10>> \o Fill(LineToChunkEnd) \o <<10>>
                             \o Fill(ShortLine) \o <<10>> \o M73_P100_R0
    [] g = "short_lines" ->
         M73_P0 \o <<10>>
           \o [k \in 1..(Lines * LineLength) |-> IF k % LineLength = 0 THEN 10 ELSE 71]
           \o M73_P100_R0

\* The parts in the order given above, or the G-code first and the
\* thumbnail last.
TextOf(in) ==
  IF in.reversed
  THEN GcodeText(in.gcode) \o SlicerText(in.slicer) \o PrinterText(in.printer)
         \o GeneratedText(in.generated) \o ThumbnailText(in.thumbnail)
  ELSE ThumbnailText(in.thumbnail) \o GeneratedText(in.generated) \o PrinterText(in.printer)
         \o SlicerText(in.slicer) \o GcodeText(in.gcode)

Texts ==
  {[tag |-> "text", thumbnail |-> t, generated |-> g, printer |-> p, slicer |-> s,
    gcode |-> c, reversed |-> r] :
     t \in ThumbnailTexts, g \in BOOLEAN, p \in SectionTexts, s \in SectionTexts,
     c \in {"none", "closed", "open"}, r \in BOOLEAN}
    \cup {[tag |-> "text", thumbnail |-> "none", generated |-> TRUE, printer |-> p,
           slicer |-> s, gcode |-> c, reversed |-> FALSE] :
            p \in {"none", "closed"}, s \in {"none", "closed"},
            c \in GcodeTexts \ {"none", "closed", "open"}}

\* "a=1\nb=2", "; a\n; b", a lone lead byte of UTF-8 and a two-byte character,
\* "a=1\n", "\na", "a\n\nb" and ";".
MetadataPayloads ==
  {<<>>, <<97, 61, 49, 10, 98, 61, 50>>, <<59, 32, 97, 10, 59, 32, 98>>, <<195, 40>>,
   <<195, 169>>, <<97, 61, 49, 10>>, <<10, 97>>, <<97, 10, 10, 98>>, <<59>>}

\* Pictures of 1 to 3 bytes and one of more than a line of Base64.
ThumbnailPayloads ==
  {<<>>, <<1>>, <<1, 2>>, <<1, 2, 3>>, [k \in 1..60 |-> k], [k \in 1..117 |-> 255 - k]}

\* 640 by 480.
LargeThumbnailSize == u16_to_le_bytes(640) \o u16_to_le_bytes(480)

\* "G1 X2\n" as text and packed, and a byte no packer writes.
GcodePayloads == {<<71, 49, 32, 88, 50, 10>>, <<29, 235, 194>>, <<255>>}

ConvertBlocks ==
  {Foreign(k, 0, 0, Len(p), p, TRUE) : k \in {0, 2, 3, 4}, p \in MetadataPayloads}
    \cup {Foreign(5, 0, e, Len(p), p, TRUE) : e \in 0..2, p \in ThumbnailPayloads}
    \cup {Foreign(5, 0, e, 3, <<1, 2, 3>>, TRUE) @@ [parameters |-> LargeThumbnailSize] :
            e \in 0..2}
    \cup {Foreign(1, 0, e, Len(p), p, TRUE) : e \in 0..2, p \in GcodePayloads}
    \cup {Foreign(2, 1, 0, Len(p), compress_to_vec_zlib(p), TRUE) : p \in MetadataPayloads}
    \cup {Foreign(2, 1, 0, 7, <<120, 218, 0, 97>>, TRUE),
          Foreign(1, 2, 0, ShortLine, HeatshrinkEncoder_stream(Fill(ShortLine)), TRUE),
          Foreign(1, 2, 0, 1, HeatshrinkEncoder_stream(Fill(ShortLine)), TRUE),
          Foreign(0, 0, 0, 2, <<59, 97>>, FALSE),
          Foreign(6, 0, 0, 2, <<59, 97>>, TRUE)}

Binaries ==
  {[tag |-> "binary", magic |-> m, blocks |-> <<>>] : m \in Magics}
    \cup {[tag |-> "binary", magic |-> u32_to_le_bytes(MAGIC), blocks |-> <<f>>] :
            f \in ConvertBlocks}
    \cup {[tag |-> "binary", magic |-> u32_to_le_bytes(MAGIC),
           blocks |-> <<Foreign(0, 0, 0, 2, <<59, 97>>, TRUE), f>>] :
            f \in {Foreign(1, 0, 0, 3, <<71, 49, 10>>, TRUE), Foreign(3, 0, 0, 0, <<>>, TRUE),
                    Foreign(3, 0, 0, 7, <<97, 61, 49, 10, 98, 61, 50>>, TRUE)}}

RECURSIVE ForeignAll(_, _)
ForeignAll(blocks, i) ==
  IF i > Len(blocks) THEN <<>>
  ELSE ForeignBytes(blocks[i], "Crc32") \o ForeignAll(blocks, i + 1)

BinaryOf(in) ==
  in.magic \o u32_to_le_bytes(Wide(1)) \o Checksum_to_le_bytes("Crc32")
    \o ForeignAll(in.blocks, 1)

InitConvert ==
  \E in \in Texts \cup Binaries :
    Start(IF in.tag = "binary" THEN BinaryOf(in) ELSE <<>>, in)

\* What a new Deserialiser fed the whole binary returns, call after call,
\* up to and with the first result that is neither a file header nor a block.
RECURSIVE DeserialiseAll(_)
DeserialiseAll(d) ==
  LET o == deserialise(d)
  IN  IF IsFrame(o.r) THEN <<o.r>> \o DeserialiseAll(o.d) ELSE <<o.r>>

AsciiToBinary ==
  /\ input.tag = "text"
  /\ result = NoResult
  /\ result' = [tag |-> "Binary", out |-> ascii_to_binary(TextOf(input))]
  /\ UNCHANGED <<inner, state, checksum, events, stream, pos, input, resets>>

DeserialiseBinary ==
  /\ result.tag = "Binary"
  /\ result.out.tag = "Ok"
  /\ events = <<>>
  /\ events' = DeserialiseAll(digest(Deserialiser_default, result.out.v))
  /\ UNCHANGED <<inner, state, checksum, result, stream, pos, input, resets>>

BinaryToAscii ==
  /\ input.tag = "binary"
  /\ result = NoResult
  /\ result' = [tag |-> "Text", out |-> binary_to_ascii(stream)]
  /\ UNCHANGED <<inner, state, checksum, events, stream, pos, input, resets>>

\* ascii_to_binary(..).unwrap() and binary_to_ascii(..) of what it gave.
AsciiToBinaryAndBack ==
  /\ input.tag = "text"
  /\ result = NoResult
  /\ LET binary == ascii_to_binary(TextOf(input))
     IN  result' = [tag |-> "Text",
                    out |-> IF binary.tag = "Ok" THEN binary_to_ascii(binary.v) ELSE Panic]
  /\ UNCHANGED <<inner, state, checksum, events, stream, pos, input, resets>>

NextConvert == AsciiToBinary \/ DeserialiseBinary \/ BinaryToAscii \/ AsciiToBinaryAndBack

SpecConvert == InitConvert /\ [][NextConvert]_vars

(***************************************************************************)
(* The claims.  A step of deserialise is a step that leaves a result:      *)
(* digest and reset leave NoResult.                                        *)
(***************************************************************************)
Called == result' # NoResult

\* The bytes "GCDE".
GCDE == <<71, 67, 68, 69>>

\* The u32 and u16 a buffer holds at a position (from 1), low byte first.
U32At(buf, p) == <<buf[p + 2] + 256 * buf[p + 3], buf[p] + 256 * buf[p + 1]>>

U16At(buf, p) == buf[p] + 256 * buf[p + 1]

\* The input is a header as serialise_file_header writes it, then its blocks.
WellFormed(cs) ==
  /\ input.tamper = None
  /\ input.checksum = cs
  /\ input.header = serialise_file_header(input.version, cs)

(***************************************************************************)
(* C8.  File header parsing: in header mode with fewer than 10 pending     *)
(* bytes deserialise returns MoreBytesRequired(10 - pending.len()) and     *)
(* changes nothing; with at least 10 bytes, the magic GCDE and a checksum  *)
(* code 0 or 1 it returns FileHeader{magic = 0x45444347, version,          *)
(* checksum}, stores the checksum kind, removes exactly the first 10 bytes *)
(* of pending and switches to block mode.                                  *)
(***************************************************************************)
C8_FileHeaderParsing ==
  [][(state = "FileHeader" /\ Called) =>
       IF Len(inner) < 10
       THEN /\ result' = [tag |-> "MoreBytesRequired", n |-> <<0, 10 - Len(inner)>>]
            /\ UNCHANGED <<inner, state, checksum, events>>
       ELSE (SubSeq(inner, 1, 4) = GCDE /\ U16At(inner, 9) \in {0, 1}) =>
              /\ result' = [tag |-> "FileHeader", magic |-> <<17732, 17223>>,
                            version |-> U32At(inner, 5),
                            checksum |-> IF U16At(inner, 9) = 1 THEN "Crc32" ELSE "None"]
              /\ checksum' = result'.checksum
              /\ inner' = SubSeq(inner, 11, Len(inner))
              /\ state' = "Block"
              /\ events' = Append(events, result')]_vars

\* A version 2 header of exactly ten bytes has been parsed: pending is empty.
C8_Witness ==
  /\ result.tag = "FileHeader"
  /\ result.version = <<0, 2>>
  /\ result.checksum = "Crc32"
  /\ checksum = "Crc32"
  /\ state = "Block"
  /\ pos = 10
  /\ inner = <<>>

(***************************************************************************)
(* C9.  Invalid magic: if the first four pending bytes, read as a          *)
(* little-endian u32, differ from 1162101575, parsing the file header      *)
(* fails with InvalidMagic carrying the value read, whatever the version   *)
(* and checksum bytes are; no FileHeader is emitted and the parser does    *)
(* not enter block mode.                                                   *)
(***************************************************************************)
C9_InvalidMagic ==
  [][(state = "FileHeader" /\ Len(inner) >= 10 /\ SubSeq(inner, 1, 4) # GCDE /\ Called) =>
       /\ result' = [tag |-> "Err", err |-> "InvalidMagic", args |-> <<U32At(inner, 1)>>]
       /\ UNCHANGED <<inner, state, checksum, events>>]_vars

(***************************************************************************)
(* C10.  Unknown checksum code: a file header with the magic GCDE whose    *)
(* checksum field (the little-endian u16 at bytes 8..10) is neither 0 nor  *)
(* 1 makes deserialise return InvalidChecksumType(v), v the value read;    *)
(* the stored checksum kind and the mode are unchanged and the 10 bytes    *)
(* are not dropped.                                                        *)
(***************************************************************************)
C10_UnknownChecksumCode ==
  [][(/\ state = "FileHeader"
      /\ Len(inner) >= 10
      /\ SubSeq(inner, 1, 4) = GCDE
      /\ U16At(inner, 9) \notin {0, 1}
      /\ Called) =>
       /\ result' = [tag |-> "Err", err |-> "InvalidChecksumType",
                     args |-> <<U16At(inner, 9)>>]
       /\ UNCHANGED <<inner, state, checksum, events>>]_vars

\* The code 256 (bytes 00 01) has been refused with the stream's bytes pending.
C10_Witness ==
  /\ result = [tag |-> "Err", err |-> "InvalidChecksumType", args |-> <<256>>]
  /\ state = "FileHeader"
  /\ SubSeq(inner, 1, 4) = GCDE
  /\ Len(inner) = Len(stream)

\* The bytes of the stream that precede its k-th block.
BytesBefore(k) ==
  Len(input.header) + Len(SerialiseAll(SubSeq(input.blocks, 1, k - 1), input.checksum, 1))

\* The length of the k-th block of the stream as serialise_block wrote it.
FrameBytes(k) == Len(Serialised(input.blocks[k], input.checksum).v)

\* The caller has digested the whole stream and deserialise has returned
\* something other than a frame.
Drained == pos = Len(stream) /\ result.tag \notin {"NoResult", "FileHeader", "Block"}

(***************************************************************************)
(* C1.  Round trip of framing: for every version and every legal block     *)
(* serialised with checksum Crc32, digesting                               *)
(* serialise_file_header(version, Crc32) followed by serialise_block(block)*)
(* and calling deserialise repeatedly yields FileHeader(version, Crc32),   *)
(* then exactly one Block whose kind, compression, encoding, parameters    *)
(* and (after decompression) payload equal those of the input block, then  *)
(* MoreBytesRequired.                                                      *)
(***************************************************************************)
C1_RoundTrip ==
  (WellFormed("Crc32") /\ Len(input.blocks) = 1 /\ Drained) =>
    LET b == input.blocks[1]
    IN  /\ result.tag = "MoreBytesRequired"
        /\ Len(events) = 2
        /\ events[1] = [tag |-> "FileHeader", magic |-> <<17732, 17223>>,
                        version |-> input.version, checksum |-> "Crc32"]
        /\ events[2].tag = "Block"
        /\ events[2].kind = b.kind
        /\ events[2].compression = b.compression
        /\ events[2].encoding = b.encoding
        /\ events[2].parameters = Encoding_to_le_bytes(b.encoding) \o b.additional_parameters
        /\ decompress(events[2]) = Ok(b.data)

\* A heatshrink-compressed thumbnail has gone through and nothing is left.
C1_Witness ==
  /\ WellFormed("Crc32")
  /\ Len(input.blocks) = 1
  /\ Drained
  /\ Len(events) = 2
  /\ events[2].kind = "Thumbnail"
  /\ events[2].compression = "Heatshrink11_4"
  /\ events[2].data # input.blocks[1].data
  /\ inner = <<>>

(***************************************************************************)
(* C6.  Complete frames are always delivered: whenever pending begins with *)
(* a complete frame (10 header bytes in header mode; in block mode a whole *)
(* block of header + parameters + payload + optional CRC), deserialise     *)
(* returns that frame or an error, never MoreBytesRequired, for every      *)
(* block size, including uncompressed blocks without CRC whose total       *)
(* length is below 12 bytes.                                               *)
(***************************************************************************)
C6_CompleteFrame ==
  IF state = "FileHeader" THEN Len(inner) >= 10
  ELSE /\ WellFormed(input.checksum)
       /\ Len(events) \in 1..Len(input.blocks)
       /\ Len(inner) >= FrameBytes(Len(events))

C6_CompleteFramesDelivered ==
  [][(C6_CompleteFrame /\ Called) => result'.tag \in {"FileHeader", "Block", "Err"}]_vars

KnownCodes(buf) == U16At(buf, 1) \in 0..5 /\ U16At(buf, 3) \in 0..3

\* The frame's length as <<high 16 bits, low 16 bits>>.
FrameLen(buf, crc) ==
  LET size == IF U16At(buf, 3) = 0 THEN U32At(buf, 5) ELSE U32At(buf, 9)
      rest == (IF U16At(buf, 3) = 0 THEN 8 ELSE 12) + (IF U16At(buf, 1) = 5 THEN 6 ELSE 2)
                + (IF crc THEN 4 ELSE 0)
  IN  <<size[1] + (size[2] + rest) \div 65536, (size[2] + rest) % 65536>>

\* buf holds the whole frame it describes.
HoldsFrame(buf, crc) ==
  /\ Len(buf) >= 12
  /\ KnownCodes(buf)
  /\ FrameLen(buf, crc)[1] = 0
  /\ FrameLen(buf, crc)[2] <= Len(buf)

(***************************************************************************)
(* C5.  CRC enforcement: when the file header's checksum kind is Crc32 and *)
(* pending holds a whole block of total_len bytes, deserialise computes    *)
(* crc32 over pending[0 .. total_len-4] and compares it with the           *)
(* little-endian u32 at pending[total_len-4 .. total_len]; on mismatch it  *)
(* returns InvalidChecksum(expected, got), expected the CRC computed from  *)
(* the bytes and got the value stored in the block, and no Block is        *)
(* emitted.                                                                *)
(***************************************************************************)
C5_CrcEnforcement ==
  [][(state = "Block" /\ checksum = "Crc32" /\ HoldsFrame(inner, TRUE) /\ Called) =>
       LET total_len == FrameLen(inner, TRUE)[2]
           expected == crc32(SubSeq(inner, 1, total_len - 4))
           got == U32At(inner, total_len - 3)
       IN  IF expected = got THEN result'.tag \in {"Block", "Err"}
           ELSE /\ result' = [tag |-> "Err", err |-> "InvalidChecksum",
                              args |-> <<expected, got>>]
                /\ UNCHANGED <<inner, state, checksum, events>>]_vars

\* The bytes of the tampered block as the caller feeds them.
Tampered == SubSeq(stream, Len(input.header) + 1, Len(stream))

\* deserialise has been called on the block.
BlockTried == state = "Block" /\ result.tag \notin {"NoResult", "FileHeader"}

(***************************************************************************)
(* C4 as stated.  Tamper detection: for any block serialised with Crc32    *)
(* and placed after a Crc32 file header, changing any single byte of the   *)
(* block's serialised form makes deserialise return an error               *)
(* (InvalidChecksum, UnsupportedBlockKind, UnsupportedCompressionAlgorithm *)
(* or UnsupportedEncoding); it never returns a Block and never returns     *)
(* MoreBytesRequired for the tampered frame.                               *)
(***************************************************************************)
C4_TamperDetection ==
  BlockTried =>
    /\ result.tag = "Err"
    /\ result.err \in {"InvalidChecksum", "UnsupportedBlockKind",
                       "UnsupportedCompressionAlgorithm", "UnsupportedEncoding"}

(***************************************************************************)
(* C4 as amended.  A single changed byte that gives an unknown kind or     *)
(* compression code makes deserialise return UnsupportedBlockKind or       *)
(* UnsupportedCompressionAlgorithm; one that leaves the frame length the   *)
(* block header describes unchanged makes it return InvalidChecksum or     *)
(* UnsupportedEncoding, never a Block and never MoreBytesRequired; one     *)
(* that makes the header describe a longer frame makes it return           *)
(* MoreBytesRequired with the number of bytes missing.                     *)
(***************************************************************************)
C4_TamperDetectionByLength ==
  BlockTried =>
    LET len == FrameLen(Tampered, TRUE)
        had == Len(Tampered)
    IN  IF ~KnownCodes(Tampered)
        THEN /\ result.tag = "Err"
             /\ result.err \in {"UnsupportedBlockKind", "UnsupportedCompressionAlgorithm"}
        ELSE IF len = <<0, had>>
        THEN /\ result.tag = "Err"
             /\ result.err \in {"InvalidChecksum", "UnsupportedEncoding"}
        ELSE (len[1] > 0 \/ len[2] > had) =>
               /\ result.tag = "MoreBytesRequired"
               /\ <<result.n[1] + (result.n[2] + had) \div 65536,
                     (result.n[2] + had) % 65536>> = len

\* The last byte of the CRC trailer was changed and the block refused.
C4_Witness ==
  /\ BlockTried
  /\ input.tamper[1][1] = Len(Tampered)
  /\ input.blocks[1].compression = "Deflate"
  /\ result.tag = "Err"
  /\ result.err = "InvalidChecksum"

(***************************************************************************)
(* The reference delivery: the whole stream in one digest on a new         *)
(* Deserialiser, then deserialise until it returns something other than a  *)
(* frame.                                                                  *)
(***************************************************************************)
RECURSIVE Run(_, _)
Run(d, frames) ==
  LET o == deserialise(d)
  IN  IF IsFrame(o.r) THEN Run(o.d, Append(frames, o.r))
      ELSE [events |-> frames, final |-> o.r, d |-> o.d]

WholeRun(bytes) == Run(digest(Deserialiser_default, bytes), <<>>)

\* d after k calls of deserialise.
RECURSIVE AfterFrames(_, _)
AfterFrames(d, k) == IF k = 0 THEN d ELSE AfterFrames(deserialise(d).d, k - 1)

(***************************************************************************)
(* C2.  Chunk independence: for every framed byte stream and every way of  *)
(* splitting it into consecutive chunks, digesting the chunks one by one   *)
(* and calling deserialise in between yields the same sequence of          *)
(* FileHeader and Block events (same order, same field values, and the     *)
(* same error if any) as digesting the whole stream in one call: the       *)
(* events so far are a prefix of the whole stream's events, an error is    *)
(* the whole stream's error after all of its events, and once the stream   *)
(* is digested and drained the events and the final result are equal.      *)
(***************************************************************************)
C2_ChunkIndependence ==
  LET whole == WholeRun(stream)
  IN  /\ Len(events) <= Len(whole.events)
      /\ events = SubSeq(whole.events, 1, Len(events))
      /\ (result.tag \in {"Err", "Panic"} \/ Drained) =>
           (events = whole.events /\ result = whole.final)

\* A heatshrink block came out before the next block had arrived in full.
C2_Witness ==
  /\ Len(input.blocks) = 2
  /\ Len(events) = 2
  /\ events[2].compression = "Heatshrink11_4"
  /\ result.tag = "MoreBytesRequired"
  /\ inner # <<>>
  /\ pos < Len(stream)

(***************************************************************************)
(* C3.  State independence from delivery: a Deserialiser that has been fed *)
(* bytes through digest, in any chunking and with deserialise calls        *)
(* interleaved at any points, and that has emitted k frames, has the mode, *)
(* the stored checksum kind and the pending buffer of one that was fed the *)
(* same bytes in one digest and then emitted k frames.                     *)
(***************************************************************************)
C3_StateIndependence ==
  resets = 0 =>
    LET ref == AfterFrames(digest(Deserialiser_default, SubSeq(stream, 1, pos)), Len(events))
    IN  /\ state = ref.state
        /\ checksum = ref.checksum
        /\ inner = ref.inner

\* Two frames are out and the second block waits whole in the buffer.
C3_Witness ==
  /\ resets = 0
  /\ Len(input.blocks) = 2
  /\ Len(events) = 2
  /\ pos = Len(stream)
  /\ Len(inner) = FrameBytes(2)
  /\ checksum = "Crc32"
  /\ state = "Block"

\* The stream with the version field of its file header set to 1.
Version1Stream == SubSeq(stream, 1, 4) \o <<1, 0, 0, 0>> \o SubSeq(stream, 9, Len(stream))

(***************************************************************************)
(* C11.  Version tolerance: a file header with the magic GCDE and a        *)
(* checksum code 0 or 1 is accepted for every u32 version value; the       *)
(* version is reported unchanged in the FileHeader event and has no effect *)
(* on how later blocks are parsed: the events after the header, the final  *)
(* result and the state are those of the same stream with version 1.       *)
(***************************************************************************)
C11_VersionTolerance ==
  (SubSeq(stream, 1, 4) = GCDE /\ U16At(stream, 9) \in {0, 1} /\ Drained) =>
    LET ref == WholeRun(Version1Stream)
    IN  /\ Len(events) >= 1
        /\ events[1].tag = "FileHeader"
        /\ events[1].version = U32At(stream, 5)
        /\ Len(events) = Len(ref.events)
        /\ \A i \in 2..Len(events) : events[i] = ref.events[i]
        /\ result = ref.final
        /\ Self = ref.d

\* Version 4294967295 has been reported and the block after it delivered.
C11_Witness ==
  /\ Drained
  /\ Len(events) = 2
  /\ events[1].version = <<65535, 65535>>
  /\ events[1].checksum = "Crc32"
  /\ events[2].tag = "Block"

\* The events so far: a FileHeader, then Blocks, in the order of the stream.
EventsInOrder ==
  /\ events # <<>> => events[1].tag = "FileHeader"
  /\ \A i \in 2..Len(events) : events[i].tag = "Block"
  /\ input.tamper = None =>
       /\ Len(events) <= 1 + Len(input.blocks)
       /\ \A i \in 2..Len(events) :
            /\ events[i].kind = input.blocks[i - 1].kind
            /\ events[i].compression = input.blocks[i - 1].compression
            /\ events[i].encoding = input.blocks[i - 1].encoding

(***************************************************************************)
(* C12.  File header exactly once, first: in any sequence of digest and    *)
(* deserialise calls on a Deserialiser without reset, the first frame      *)
(* event returned is a FileHeader, no Block is returned before it, no      *)
(* second FileHeader is returned, and blocks are returned in the order     *)
(* their bytes appear in the stream; the mode goes from FileHeader to      *)
(* Block only on a successful header parse and back to FileHeader only     *)
(* through reset.                                                          *)
(***************************************************************************)
C12_HeaderOnceFirst ==
  [][/\ resets' = 0 => EventsInOrder'
     /\ state' # state =>
          IF state = "FileHeader"
          THEN result'.tag = "FileHeader" /\ events' = Append(events, result')
          ELSE resets' = resets + 1]_vars

\* A header and two blocks have come out of a Deserialiser never reset.
C12_Witness ==
  /\ resets = 0
  /\ Len(events) = 3
  /\ events[1].tag = "FileHeader"
  /\ events[2].kind = "Thumbnail"
  /\ events[3].compression = "Deflate"
  /\ state = "Block"

(***************************************************************************)
(* C13.  End of stream: once every complete frame has been emitted and     *)
(* pending is empty in block mode, deserialise returns                     *)
(* MoreBytesRequired(12), and it keeps returning exactly that, without     *)
(* changing state, for as long as no further bytes are digested.           *)
(***************************************************************************)
C13_EndOfStream ==
  [][(state = "Block" /\ inner = <<>> /\ Called) =>
       /\ result' = [tag |-> "MoreBytesRequired", n |-> <<0, 12>>]
       /\ UNCHANGED <<inner, state, checksum, events>>]_vars

\* The stream is used up, two blocks are out and 12 more bytes are asked for.
C13_Witness ==
  /\ state = "Block"
  /\ inner = <<>>
  /\ pos = Len(stream)
  /\ Len(events) = 3
  /\ result = [tag |-> "MoreBytesRequired", n |-> <<0, 12>>]

\* An error or MoreBytesRequired.
NonFrame(r) == r.tag \in {"Err", "MoreBytesRequired"}

(***************************************************************************)
(* C14.  No progress and no damage on non-frame results: a call to         *)
(* deserialise that returns an error or MoreBytesRequired leaves pending,  *)
(* mode and stored checksum kind exactly as they were, so repeating the    *)
(* call without digest returns the same result; after an error only reset  *)
(* (not further digest) lets the instance emit frames again: while         *)
(* deserialise would return an error, every digest and deserialise leaves  *)
(* it returning that error.                                                *)
(***************************************************************************)
C14_NoProgressNoDamage ==
  [][/\ (Called /\ NonFrame(result')) => UNCHANGED <<inner, state, checksum, events>>
     /\ (Called /\ NonFrame(result)) => result' = result
     /\ (deserialise(Self).r.tag = "Err" /\ resets' = resets) =>
          /\ deserialise([inner |-> inner', state |-> state', checksum |-> checksum']).r
               = deserialise(Self).r
          /\ events' = events]_vars

\* A block with a wrong CRC is refused with all its bytes still pending.
C14_Witness ==
  /\ result.tag = "Err"
  /\ result.err = "InvalidChecksum"
  /\ Len(events) = 1
  /\ pos = Len(stream)
  /\ inner = SubSeq(stream, 11, Len(stream))
  /\ state = "Block"

\* A new Deserialiser fed the bytes digested since the reset in one digest,
\* after as many frames as this one has emitted since.
Fresh == AfterFrames(digest(Deserialiser_default, SubSeq(stream, 1, pos)), Len(events))

(***************************************************************************)
(* C15.  reset restores the initial behaviour: after reset, at any point   *)
(* and after any history (including after a Crc32 header was parsed or     *)
(* after an error), pending is empty and the mode is FileHeader, and for   *)
(* every subsequent sequence of digest and deserialise calls the instance  *)
(* returns the same results as a freshly created Deserialiser.             *)
(***************************************************************************)
C15_ResetRestores ==
  [][/\ resets' = resets + 1 => (inner' = <<>> /\ state' = "FileHeader")
     /\ (resets >= 1 /\ Called) =>
          LET o == deserialise(Fresh)
          IN  /\ result' = o.r
              /\ inner' = o.d.inner
              /\ state' = o.d.state
              /\ state' = "Block" => checksum' = o.d.checksum]_vars

\* After a reset that followed a Crc32 header, a stream without checksums is
\* being fed and its header is not yet complete.
C15_Witness ==
  /\ resets = 1
  /\ checksum = "Crc32"
  /\ input.checksum = "None"
  /\ state = "FileHeader"
  /\ pos > 0
  /\ result.tag = "MoreBytesRequired"

\* The step is a digest: no result is left and no reset was made.
Digested == result' = NoResult /\ resets' = resets

(***************************************************************************)
(* C16.  digest appends its argument to the end of pending and does        *)
(* nothing else: it never fails for any input (including the empty         *)
(* slice), leaves the existing pending bytes, the mode and the stored      *)
(* checksum kind unchanged, and emits no frame by itself.                  *)
(***************************************************************************)
C16_DigestAppends ==
  [][Digested =>
       /\ pos' >= pos
       /\ inner' = inner \o SubSeq(stream, pos + 1, pos')
       /\ UNCHANGED <<state, checksum, events>>]_vars

\* Bytes were digested behind the rest of a block left pending in block mode.
C16_Witness ==
  /\ result = NoResult
  /\ resets = 0
  /\ state = "Block"
  /\ Len(events) = 1
  /\ Len(inner) > MaxChunk
  /\ inner = SubSeq(stream, 11, pos)
  /\ pos < Len(stream)


\* The encoding a block of a kind may name under a code, written out.
EncodingOf(kind, code) ==
  IF kind \in {"FileMetadata", "SlicerMetadata", "PrintMetadata", "PrinterMetadata"}
  THEN (IF code = 0 THEN Some("Ini") ELSE None)
  ELSE IF kind = "GCode"
  THEN (IF code \in 0..2 THEN Some(<<"Ascii", "Meatpack", "MeatpackWithComments">>[code + 1])
        ELSE None)
  ELSE (IF code \in 0..2 THEN Some(<<"Png", "Jpg", "Qoi">>[code + 1]) ELSE None)

\* The same encodings as src/common.rs spells them.
CommonSpelling(encoding) ==
  CASE encoding = "Ini" -> "INI"
    [] encoding = "Ascii" -> "ASCII"
    [] encoding = "Png" -> "PNG"
    [] encoding = "Jpg" -> "JPG"
    [] encoding = "Qoi" -> "QOI"
    [] OTHER -> encoding

\* What the claim lets a decoding of the code return.
EncodingDecoded(r, kind, code) ==
  IF EncodingOf(kind, code) = None
  THEN r = Err("UnsupportedEncoding", <<code>>)
  ELSE r \in {Ok(EncodingOf(kind, code)[1]), Ok(CommonSpelling(EncodingOf(kind, code)[1]))}

(***************************************************************************)
(* C17.  Encoding validity by kind: decoding an encoding code for a block  *)
(* kind succeeds exactly for the metadata kinds with 0 (Ini), GCode with   *)
(* 0, 1, 2 (Ascii, Meatpack, MeatpackWithComments) and Thumbnail with 0,   *)
(* 1, 2 (Png, Jpg, Qoi); every other pair yields an UnsupportedEncoding    *)
(* error carrying the code, and deserialise emits no Block for it.  Stated *)
(* of Encoding::from_le_bytes in components/common.rs and in src/common.rs *)
(* and of deserialise on a whole block of the kind under the code.         *)
(***************************************************************************)
C17_EncodingValidity ==
  result.tag = "Decoded" =>
    LET code == u16_from_le_bytes(input.bytes)
    IN  /\ EncodingDecoded(result.encoding, input.kind, code)
        /\ EncodingDecoded(result.common_encoding, input.kind, code)
        /\ IF EncodingOf(input.kind, code) = None
           THEN result.block = Err("UnsupportedEncoding", <<code>>)
           ELSE /\ result.block.tag = "Block"
                /\ result.block.encoding = EncodingOf(input.kind, code)[1]

\* The same of components/common.rs and deserialise alone.
C17_EncodingValidityComponents ==
  result.tag = "Decoded" =>
    LET code == u16_from_le_bytes(input.bytes)
    IN  /\ EncodingDecoded(result.encoding, input.kind, code)
        /\ IF EncodingOf(input.kind, code) = None
           THEN result.block = Err("UnsupportedEncoding", <<code>>)
           ELSE /\ result.block.tag = "Block"
                /\ result.block.encoding = EncodingOf(input.kind, code)[1]


\* The kinds and the compression algorithms in the order of their codes.
KindOrder ==
  <<"FileMetadata", "GCode", "SlicerMetadata", "PrinterMetadata", "PrintMetadata",
    "Thumbnail">>

CompressionOrder == <<"None", "Deflate", "Heatshrink11_4", "Heatshrink12_4">>

\* The two bytes of the code of a value: its place in the order, low byte first.
LittleEndianCode(order, x) ==
  LET code == (CHOOSE i \in 1..Len(order) : order[i] = x) - 1
  IN  <<code % 256, code \div 256>>

ChecksumCode(cs) == IF cs = "None" THEN <<0, 0>> ELSE <<1, 0>>

\* Decoding two bytes that hold a code of the order gives the value there.
DecodesInOrder(r, order, bytes) ==
  (bytes[2] = 0 /\ bytes[1] < Len(order)) => r = Ok(order[bytes[1] + 1])

(***************************************************************************)
(* C18.  Enum codes are bidirectional and little-endian: for every         *)
(* BlockKind k, from_le_bytes(k.to_le_bytes()) = k with codes 0..5 in the  *)
(* order FileMetadata, GCode, SlicerMetadata, PrinterMetadata,             *)
(* PrintMetadata, Thumbnail; for every CompressionAlgorithm c,             *)
(* from_le_bytes(c.to_le_bytes()) = c with codes 0..3; Checksum None and   *)
(* Crc32 map to [0,0] and [1,0]; the first byte of every code is the low   *)
(* byte.  Stated of components/common.rs and of src/common.rs.             *)
(***************************************************************************)
C18_EnumCodes ==
  /\ result.tag = "Encoded" =>
       /\ result.kind = LittleEndianCode(KindOrder, input.kind)
       /\ result.compression = LittleEndianCode(CompressionOrder, input.compression)
       /\ result.checksum = ChecksumCode(input.checksum)
       /\ result.common_kind = LittleEndianCode(KindOrder, input.kind)
       /\ result.common_compression = LittleEndianCode(CompressionOrder, input.compression)
       /\ result.common_checksum = ChecksumCode(input.checksum)
  /\ result.tag = "Decoded" =>
       /\ DecodesInOrder(result.kind, KindOrder, input.bytes)
       /\ DecodesInOrder(result.compression, CompressionOrder, input.bytes)
       /\ DecodesInOrder(result.common_kind, KindOrder, input.bytes)
       /\ DecodesInOrder(result.common_compression, CompressionOrder, input.bytes)
  /\ result.tag = "RoundTrip" =>
       /\ result.kind = Ok(input.kind)
       /\ result.compression = Ok(input.compression)
       /\ result.common_kind = Ok(input.kind)
       /\ result.common_compression = Ok(input.compression)

\* The same of components/common.rs alone.
C18_EnumCodesComponents ==
  /\ result.tag = "Encoded" =>
       /\ result.kind = LittleEndianCode(KindOrder, input.kind)
       /\ result.compression = LittleEndianCode(CompressionOrder, input.compression)
       /\ result.checksum = ChecksumCode(input.checksum)
  /\ result.tag = "Decoded" =>
       /\ DecodesInOrder(result.kind, KindOrder, input.bytes)
       /\ DecodesInOrder(result.compression, CompressionOrder, input.bytes)
  /\ result.tag = "RoundTrip" =>
       /\ result.kind = Ok(input.kind)
       /\ result.compression = Ok(input.compression)


\* Ten bytes that read "GCDE", the version and the code of the checksum kind.
HeaderLayout(bytes, version, cs) ==
  /\ Len(bytes) = 10
  /\ SubSeq(bytes, 1, 4) = GCDE
  /\ U32At(bytes, 5) = version
  /\ U16At(bytes, 9) = (IF cs = "None" THEN 0 ELSE 1)

(***************************************************************************)
(* C19.  File header serialisation: for every version and checksum kind,   *)
(* serialise_file_header and FileHeader::to_bytes return exactly 10 bytes: *)
(* 47 43 44 45, then the version as a little-endian u32, then the checksum *)
(* code as a little-endian u16; parsing those 10 bytes (deserialise,       *)
(* FileHeader::from_bytes) returns a header with the same version and      *)
(* checksum kind.                                                          *)
(***************************************************************************)
C19_FileHeaderSerialisation ==
  /\ result.tag = "Encoded" =>
       /\ HeaderLayout(result.header, input.version, input.checksum)
       /\ HeaderLayout(result.file_header, input.version, input.checksum)
  /\ result.tag = "RoundTrip" =>
       /\ result.header.tag = "FileHeader"
       /\ result.header.version = input.version
       /\ result.header.checksum = input.checksum
       /\ result.file_header.tag = "Ok"
       /\ result.file_header.v.version = input.version
       /\ result.file_header.v.checksum = input.checksum

\* A CRC32 header of version 0x01020304 has been written and parsed again.
C19_Witness ==
  /\ result.tag = "RoundTrip"
  /\ input.version = <<258, 772>>
  /\ input.checksum = "Crc32"
  /\ result.header = DeserialisedFileHeader(MAGIC, <<258, 772>>, "Crc32")


\* The bytes the decoder of a compressed block yields for its data.
Produced(b) ==
  IF b.compression = "Deflate" THEN decompress_to_vec_zlib(b.data)
  ELSE Ok(HeatshrinkDecoder_stream(b.data))

(***************************************************************************)
(* C20.  Decompressed length is enforced: decompress of an emitted block   *)
(* returns Ok(bytes) only when the number of bytes the decompressor        *)
(* produced equals the block's data_uncompressed_len; a Deflate or         *)
(* Heatshrink stream that decodes to fewer or more bytes gives an error    *)
(* rather than a short, padded or longer buffer.  Stated of the blocks     *)
(* emitted under CRC32, whose data is the whole payload.                   *)
(***************************************************************************)
C20_LengthEnforced ==
  (/\ result.tag = "Block"
   /\ result.compression # "None"
   /\ decompress(result).tag = "Ok"
   /\ checksum = "Crc32") =>
    /\ Produced(result).tag = "Ok"
    /\ Len(Produced(result).v) = WideToInt(result.data_uncompressed_len)
    /\ decompress(result).v = Produced(result).v

\* The same for the blocks serialise_block wrote.
C20_LengthOfSerialised ==
  (/\ result.tag = "Block"
   /\ result.compression # "None"
   /\ decompress(result).tag = "Ok"
   /\ input.tamper = None
   /\ checksum = "Crc32") =>
    /\ Produced(result).tag = "Ok"
    /\ Len(Produced(result).v) = WideToInt(result.data_uncompressed_len)
    /\ decompress(result).v = Produced(result).v


\* header_len + param_len + payload_len + (4 if Crc32) of the block whose
\* head is buf, as <<high bits, low 16 bits>> of the exact sum.
TotalLen(buf, cs) ==
  LET header_len == IF U16At(buf, 3) # 0 THEN 12 ELSE 8
      param_len == IF U16At(buf, 1) = 5 THEN 6 ELSE 2
      payload_len == IF U16At(buf, 3) # 0 THEN U32At(buf, 9) ELSE U32At(buf, 5)
      rest == header_len + param_len + (IF cs = "Crc32" THEN 4 ELSE 0)
  IN  <<payload_len[1] + (payload_len[2] + rest) \div 65536, (payload_len[2] + rest) % 65536>>

\* total_len - n for n below 65536 and below total_len.
TotalLenLess(total, n) ==
  IF total[2] >= n THEN <<total[1], total[2] - n>> ELSE <<total[1] - 1, total[2] + 65536 - n>>

\* deserialise has answered a head of fewer bytes than total_len as claimed.
AsksForTheRest ==
  LET total == TotalLen(stream, input.checksum)
  IN  (total[1] > 0 \/ total[2] > Len(stream)) =>
        /\ result = [tag |-> "MoreBytesRequired", n |-> TotalLenLess(total, Len(stream))]
        /\ inner = stream
        /\ state = "Block"
        /\ events = <<>>

(***************************************************************************)
(* C26.  Block length computation: in block mode with at least 12 pending  *)
(* bytes and valid kind and compression codes, total_len = header_len (12  *)
(* if compressed else 8) + param_len (6 for Thumbnail else 2) +            *)
(* payload_len (compressed_size if present else uncompressed_size) + (4 if *)
(* Crc32); if pending.len() < total_len, deserialise returns               *)
(* MoreBytesRequired(total_len - pending.len()), for every length value up *)
(* to 2^32 - 1, and consumes nothing.                                      *)
(***************************************************************************)
C26_BlockLength == result # NoResult => AsksForTheRest

\* The same where usize has 64 bits.
C26_BlockLength64 == (result # NoResult /\ input.target.bits = 64) => AsksForTheRest


\* Where the encoding code of the block at the head of buf starts (from 1).
EncodingAt(buf) == IF U16At(buf, 3) = 0 THEN 9 ELSE 13

\* The kind with a code.
KindOfCode(code) == KindOrder[code + 1]

\* The error the codes at the head of buf call for, if buf holds an invalid
\* code: the kind first, then the compression, then the encoding.
FramingError(buf) ==
  IF Len(buf) >= 2 /\ U16At(buf, 1) \notin 0..5
  THEN Some(Err("UnsupportedBlockKind", <<U16At(buf, 1)>>))
  ELSE IF Len(buf) >= 4 /\ U16At(buf, 3) \notin 0..3
  THEN Some(Err("UnsupportedCompressionAlgorithm", <<U16At(buf, 3)>>))
  ELSE IF /\ Len(buf) >= 4
          /\ Len(buf) >= EncodingAt(buf) + 1
          /\ EncodingOf(KindOfCode(U16At(buf, 1)), U16At(buf, EncodingAt(buf))) = None
  THEN Some(Err("UnsupportedEncoding", <<U16At(buf, EncodingAt(buf))>>))
  ELSE None

(***************************************************************************)
(* C27.  Fail fast on corrupt framing: as soon as pending contains the     *)
(* bytes of an invalid block kind code, invalid compression code or        *)
(* illegal (kind, encoding) code, deserialise returns the corresponding    *)
(* error on the next call; it does not first return MoreBytesRequired to   *)
(* wait for the rest of the header, the payload or the CRC, and it reports *)
(* the invalid code rather than InvalidChecksum.                           *)
(***************************************************************************)
C27_FailFast ==
  [][(Called /\ state = "Block" /\ FramingError(inner) # None) =>
       result' = FramingError(inner)[1]]_vars

\* The same of the kind and compression codes once 12 bytes are pending.
C27_FailFastFromTwelve ==
  [][(/\ Called
      /\ state = "Block"
      /\ Len(inner) >= 12
      /\ (U16At(inner, 1) \notin 0..5 \/ U16At(inner, 3) \notin 0..3)) =>
       result' = FramingError(inner)[1]]_vars


\* The bytes of an emitted frame: 10 for the header, total_len for a block.
EmittedLen(frame, cs) ==
  IF frame.tag = "FileHeader" THEN 10
  ELSE (IF frame.data_compressed_len = None THEN 8 + WideToInt(frame.data_uncompressed_len)
        ELSE 12 + WideToInt(frame.data_compressed_len[1]))
         + Len(frame.parameters) + (IF cs = "Crc32" THEN 4 ELSE 0)

RECURSIVE EmittedBytes(_, _)
EmittedBytes(frames, cs) ==
  IF frames = <<>> THEN 0
  ELSE EmittedLen(Head(frames), cs) + EmittedBytes(Tail(frames), cs)

\* pending is what has been digested since the last reset without the
\* bytes of the frames emitted since.
Conserved ==
  /\ EmittedBytes(events, checksum) <= pos
  /\ inner = SubSeq(stream, EmittedBytes(events, checksum) + 1, pos)

(***************************************************************************)
(* C28.  Byte conservation of the pending buffer: in every reachable state *)
(* pending equals the bytes digested since creation or the last reset      *)
(* with a prefix removed whose length is the sum of the lengths of the     *)
(* frames emitted so far (10 for the header, total_len for each block);    *)
(* emitting a frame removes exactly that frame's bytes from the front and  *)
(* nothing else, and pending only grows between emissions.                 *)
(***************************************************************************)
C28_ByteConservation ==
  [][/\ Conserved'
     /\ events' = Append(events, result') =>
          inner' = Drain(inner, EmittedLen(result', checksum'))
     /\ (events' = events /\ resets' = resets) =>
          /\ Len(inner') >= Len(inner)
          /\ SubSeq(inner', 1, Len(inner)) = inner]_vars

\* The header and the first of two blocks are out, the second is pending whole.
C28_Witness ==
  /\ input.tamper = None
  /\ Len(input.blocks) = 2
  /\ Len(events) = 2
  /\ pos = Len(stream)
  /\ inner # <<>>
  /\ inner = SubSeq(stream, Len(stream) - Len(inner) + 1, Len(stream))
  /\ result.tag = "Block"


\* The code of an encoding.
EncodingCode(encoding) ==
  CASE encoding \in {"Ini", "Ascii", "Png"} -> 0
    [] encoding \in {"Meatpack", "Jpg"} -> 1
    [] encoding \in {"MeatpackWithComments", "Qoi"} -> 2

\* The stored payload is the payload, raw or compressed.
Stores(stored, compression, data) ==
  CASE compression = "None" -> stored = data
    [] compression = "Deflate" -> decompress_to_vec_zlib(stored) = Ok(data)
    [] OTHER -> HeatshrinkDecoder_stream(stored) = data

\* b is the block of the claim for a kind, compression, encoding, checksum
\* kind, additional parameters ap and payload.
Layout(b, in, ap) ==
  LET compressed == in.compression # "None"
      crc == in.checksum = "Crc32"
      p == IF compressed THEN 13 ELSE 9
      stored_len ==
        Len(b) - (8 + (IF compressed THEN 4 ELSE 0) + 2 + Len(ap) + (IF crc THEN 4 ELSE 0))
  IN  /\ stored_len >= 0
      /\ SubSeq(b, 1, 2) = LittleEndianCode(KindOrder, in.kind)
      /\ SubSeq(b, 3, 4) = LittleEndianCode(CompressionOrder, in.compression)
      /\ U32At(b, 5) = <<0, Len(in.data)>>
      /\ compressed => U32At(b, 9) = <<0, stored_len>>
      /\ U16At(b, p) = EncodingCode(in.encoding)
      /\ SubSeq(b, p + 2, p + 1 + Len(ap)) = ap
      /\ Stores(SubSeq(b, p + 2 + Len(ap), p + 1 + Len(ap) + stored_len), in.compression,
                in.data)
      /\ crc => U32At(b, Len(b) - 3) = crc32(SubSeq(b, 1, Len(b) - 4))

(***************************************************************************)
(* C29.  Serialised block layout: the serialiser writes, in this order,    *)
(* kind (2 bytes), compression (2), uncompressed_size = payload length     *)
(* (4), compressed_size (4, exactly when compression is not None),         *)
(* encoding (2), the additional parameters, the raw or compressed payload, *)
(* and, exactly when checksum is Crc32, a 4-byte little-endian CRC32 of    *)
(* all bytes before it; for every compression including None the encoding  *)
(* and parameters are present, so the output length is 8 + (4 if           *)
(* compressed) + 2 + |additional parameters| + |stored payload| + (4 if    *)
(* Crc32).  Stated of serialise_block and of BlockSerialiser::serialise,   *)
(* which takes no additional parameters.                                   *)
(***************************************************************************)
C29_BlockLayout ==
  /\ (result.tag = "Serialised" /\ result.out.tag = "Ok") =>
       Layout(result.out.v, input, input.additional_parameters)
  /\ (result.tag = "BlockSerialiser" /\ result.out.tag = "Ok") =>
       Layout(result.out.v, input, <<>>)

\* The same of serialise_block alone.
C29_BlockLayoutComponents ==
  (result.tag = "Serialised" /\ result.out.tag = "Ok") =>
    Layout(result.out.v, input, input.additional_parameters)

(***************************************************************************)
(* C30.  Serialiser output is always a well-formed frame: for every        *)
(* combination of kind, compression, encoding, checksum, additional        *)
(* parameters (of any length) and payload, serialise_block either returns  *)
(* an error or returns bytes that, digested after a file header with the   *)
(* same checksum kind, make deserialise return one Block and leave pending *)
(* empty; it emits no block with an illegal (kind, encoding) pair and no   *)
(* Thumbnail block whose parameter region is not 6 bytes.                  *)
(***************************************************************************)
C30_WellFormedFrame ==
  (result.tag = "Deserialised" /\ result.out.tag = "Ok") =>
    /\ result.header.tag = "FileHeader"
    /\ result.block.tag = "Block"
    /\ result.rest = [tag |-> "MoreBytesRequired", n |-> <<0, 12>>]
    /\ inner = <<>>
    /\ EncodingOf(input.kind, EncodingCode(input.encoding)) = Some(input.encoding)
    /\ Len(result.block.parameters) = (IF input.kind = "Thumbnail" THEN 6 ELSE 2)
    /\ Len(input.additional_parameters) = (IF input.kind = "Thumbnail" THEN 4 ELSE 0)

\* The same for the legal pairs with 4 additional parameter bytes for a
\* Thumbnail and none otherwise, under CRC32.
C30_LegalBlocksWellFormed ==
  (/\ result.tag = "Deserialised"
   /\ result.out.tag = "Ok"
   /\ input.checksum = "Crc32"
   /\ EncodingOf(input.kind, EncodingCode(input.encoding)) = Some(input.encoding)
   /\ Len(input.additional_parameters) = (IF input.kind = "Thumbnail" THEN 4 ELSE 0)) =>
    /\ result.header.tag = "FileHeader"
    /\ result.block.tag = "Block"
    /\ result.rest = [tag |-> "MoreBytesRequired", n |-> <<0, 12>>]
    /\ inner = <<>>
    /\ Len(result.block.parameters) = (IF input.kind = "Thumbnail" THEN 6 ELSE 2)


(***************************************************************************)
(* The converters.                                                         *)
(***************************************************************************)
\* binary_to_ascii has been called on the binary of the input.
Converted == input.tag = "binary" /\ result.tag = "Text"

\* The blocks a Deserialiser hands out for the binary.
BlocksOf(binary) ==
  LET all == DeserialiseAll(digest(Deserialiser_default, binary))
  IN  {all[i] : i \in {j \in 1..Len(all) : all[j].tag = "Block"}}

MetadataKinds == {"FileMetadata", "PrinterMetadata", "PrintMetadata", "SlicerMetadata"}

\* Every block decompresses, no metadata payload is empty and every payload
\* written as it is holds bytes below 128 only.
Renderable(binary) ==
  \A b \in BlocksOf(binary) :
    /\ decompress(b).tag = "Ok"
    /\ b.kind \in MetadataKinds => decompress(b).v # <<>>
    /\ b.kind # "Thumbnail" /\ b.encoding \in {"Ini", "Ascii"} =>
         \A i \in 1..Len(decompress(b).v) : decompress(b).v[i] < 128

\* C21: binary_to_ascii is total: for every binary it returns the text or
\* an Err, and never aborts; a block that does not decompress, a metadata
\* block with an empty payload and a payload that is not UTF-8 give an Err.
\* (Where the heatshrink decoder yields more than the block announces, its
\* answer is not the repository's and nothing is asked of it here.)
C21_Total == Converted => result.out.tag \in {"Ok", "Err", "NoReturn"}

\* C21, as the code has it: binary_to_ascii returns the text or an Err for
\* every binary whose blocks decompress, whose metadata payloads are not
\* empty and whose payloads are ASCII.
C21_TotalOnRenderable ==
  Converted /\ Renderable(stream) => result.out.tag \in {"Ok", "Err", "NoReturn"}

C21_Witness ==
  /\ Converted
  /\ Renderable(stream)
  /\ BlocksOf(stream) # {}
  /\ result.out.tag = "Ok"


\* The GCode blocks of the binary that ascii_to_binary returned, as a
\* Deserialiser hands them out.
GcodeBlocks ==
  {events[i] : i \in {j \in 1..Len(events) :
                         events[j].tag = "Block" /\ events[j].kind = "GCode"}}

\* The binary of a text has been deserialised.
Deserialised == input.tag = "text" /\ events # <<>>

\* The G-code region of the text: from the first "M73 P0" through the
\* "M73 P100 R0\n" that follows.
GcodeRegion(ascii) ==
  LET start == find(ascii, M73_P0)
      end == find(Drain(ascii, start[1]), M73_P100_R0)
  IN  Slice(ascii, start[1], start[1] + end[1] + Len(M73_P100_R0))

\* Every line of a text that ends with a newline has at most n bytes,
\* newline included.
LinesWithin(ascii, n) ==
  LET newlines == SelectSeq([k \in 1..Len(ascii) |-> k], LAMBDA j : ascii[j] = 10)
  IN  \A k \in 1..Len(newlines) :
        newlines[k] - (IF k = 1 THEN 0 ELSE newlines[k - 1]) <= n

\* C22: every GCode block that ascii_to_binary emits carries an
\* uncompressed payload of at most 65535 bytes that ends with a newline,
\* and is Heatshrink(11,4) / Ascii, also for lines of more than 100 bytes
\* and regions of more than 65535 bytes.
C22_ChunkBound ==
  Deserialised =>
    \A b \in GcodeBlocks :
      /\ WideToInt(b.data_uncompressed_len) <= u16_MAX
      /\ decompress(b).tag = "Ok"
      /\ Len(decompress(b).v) <= u16_MAX
      /\ decompress(b).v[Len(decompress(b).v)] = 10
      /\ b.compression = "Heatshrink11_4"
      /\ b.encoding = "Ascii"

\* C22, as the code has it: the blocks are Heatshrink(11,4) / Ascii and end
\* with a newline, and they hold at most 65535 bytes where no line of the
\* region is longer than 100 bytes.
C22_ChunkBoundShortLines ==
  Deserialised =>
    \A b \in GcodeBlocks :
      /\ decompress(b).tag = "Ok"
      /\ WideToInt(b.data_uncompressed_len) = Len(decompress(b).v)
      /\ decompress(b).v[Len(decompress(b).v)] = 10
      /\ b.compression = "Heatshrink11_4"
      /\ b.encoding = "Ascii"
      /\ LinesWithin(GcodeRegion(TextOf(input)), 100) =>
           WideToInt(b.data_uncompressed_len) <= u16_MAX

C22_Witness ==
  /\ Deserialised
  /\ input.gcode = "short_lines"
  /\ Cardinality(GcodeBlocks) = 2
  /\ \E b \in GcodeBlocks : WideToInt(b.data_uncompressed_len) > u16_MAX - 100


\* The blocks of a kind among the events, in order.
BlocksOfKind(kind) ==
  SelectSeq(events, LAMBDA e : e.tag = "Block" /\ e.kind = kind)

\* The decompressed payloads of blocks one after another, half by half.
RECURSIVE Payload(_, _, _)
Payload(blocks, lo, hi) ==
  IF lo > hi THEN <<>>
  ELSE IF lo = hi THEN decompress(blocks[lo]).v
  ELSE Payload(blocks, lo, (lo + hi) \div 2) \o Payload(blocks, (lo + hi) \div 2 + 1, hi)

\* The region of a text from the first marker through the needle that
\* follows it, or no bytes where the text has no such region.
Region(ascii, marker, needle) ==
  LET start == find(ascii, marker)
      end == find(Drain(ascii, start[1]), needle)
  IN  IF start = None \/ end = None THEN <<>>
      ELSE Slice(ascii, start[1], start[1] + end[1] + Len(needle))

\* C23: for every text that ascii_to_binary accepts, the GCode blocks of
\* the binary, decompressed and concatenated in order, are the region of
\* the text from the first "M73 P0" through the following "M73 P100 R0\n",
\* and the payloads of the PrinterMetadata and SlicerMetadata blocks are
\* the regions of the text they were taken from.
C23_TextRoundTrip ==
  Deserialised =>
    LET ascii == TextOf(input)
        gcode == BlocksOfKind("GCode")
        printer == BlocksOfKind("PrinterMetadata")
        slicer == BlocksOfKind("SlicerMetadata")
    IN  /\ \A e \in GcodeBlocks : decompress(e).tag = "Ok"
        /\ Payload(gcode, 1, Len(gcode)) = Region(ascii, M73_P0, M73_P100_R0)
        /\ Len(printer) <= 1
        /\ Payload(printer, 1, Len(printer)) = Region(ascii, printer_model, <<10, 10>>)
        /\ Len(slicer) <= 1
        /\ \A i \in 1..Len(slicer) : decompress(slicer[i]).tag = "Ok"
        /\ Payload(slicer, 1, Len(slicer))
             = Region(ascii, prusaslicer_config_begin, prusaslicer_config_end)

\* A text of all three sections whose G-code was split into two blocks.
C23_Witness ==
  /\ Deserialised
  /\ Len(BlocksOfKind("GCode")) = 2
  /\ Len(BlocksOfKind("PrinterMetadata")) = 1
  /\ Len(BlocksOfKind("SlicerMetadata")) = 1
  /\ Payload(BlocksOfKind("GCode"), 1, 2) = GcodeText(input.gcode)
  /\ Payload(BlocksOfKind("PrinterMetadata"), 1, 1) = PrinterText("closed")
  /\ Payload(BlocksOfKind("SlicerMetadata"), 1, 1) \o <<10>> = SlicerText("closed")


\* "ABC", the picture of ThumbnailBody.
ThumbnailPicture == <<65, 66, 67>>

\* C24: ascii_to_binary emits one Thumbnail block for a thumbnail region of
\* the text, with encoding Png or Jpg by the tag, width and height as the 4
\* parameter bytes after the encoding and the decoded Base64 as payload.
C24_Thumbnails ==
  Deserialised /\ input.thumbnail \in {"png", "jpg"} =>
    LET thumbnails == BlocksOfKind("Thumbnail")
    IN  /\ Len(thumbnails) = 1
        /\ thumbnails[1].encoding = (IF input.thumbnail = "png" THEN "Png" ELSE "Jpg")
        /\ Drain(thumbnails[1].parameters, 2) = ThumbnailSize
        /\ decompress(thumbnails[1]) = Ok(ThumbnailPicture)

\* C24, as the code has it: ascii_to_binary emits no Thumbnail block.
C24_NoThumbnailBlock == Deserialised => BlocksOfKind("Thumbnail") = <<>>

\* The text has the start marker of a section and no end marker after it.
MissingEnd(ascii, marker, needle) ==
  /\ find(ascii, marker) # None
  /\ find(Drain(ascii, find(ascii, marker)[1]), needle) = None

SerialiseError == Err("SerialiseError", <<>>)

\* ascii_to_binary has been called on the text of the input.
ToBinary == input.tag = "text" /\ result.tag = "Binary"

\* C25: where the text has the start marker of a section and not its end
\* marker (thumbnail begin without thumbnail end, "; printer_model" without
\* a blank line, "; prusaslicer_config = begin" without "= end", "M73 P0"
\* without "M73 P100 R0\n"), ascii_to_binary returns SerialiseError.
C25_MissingTerminator ==
  ToBinary =>
    LET ascii == TextOf(input)
    IN  \/ MissingEnd(ascii, thumbnail_begin, thumbnail_end)
        \/ MissingEnd(ascii, printer_model, <<10, 10>>)
        \/ MissingEnd(ascii, prusaslicer_config_begin, prusaslicer_config_end)
        \/ MissingEnd(ascii, M73_P0, M73_P100_R0)
        => result.out = SerialiseError

\* C25, as the code has it: SerialiseError for a thumbnail, printer
\* metadata or slicer configuration without its end; G-code without its
\* end is left out of an Ok binary.
C25_MissingTerminatorButGcode ==
  ToBinary =>
    LET ascii == TextOf(input)
        missing == \/ MissingEnd(ascii, thumbnail_begin, thumbnail_end)
                   \/ MissingEnd(ascii, printer_model, <<10, 10>>)
                   \/ MissingEnd(ascii, prusaslicer_config_begin, prusaslicer_config_end)
    IN  /\ missing => result.out = SerialiseError
        /\ ~missing /\ MissingEnd(ascii, M73_P0, M73_P100_R0) =>
             /\ result.out.tag = "Ok"
             /\ BlocksOf(result.out.v) # {} =>
                  \A b \in BlocksOf(result.out.v) : b.kind # "GCode"


\* The blocks a Deserialiser hands out for the binary, in order.
BlockSeq(binary) ==
  SelectSeq(DeserialiseAll(digest(Deserialiser_default, binary)),
            LAMBDA e : e.tag = "Block")

\* The binary is blocks of metadata with payloads that are not empty, and
\* binary_to_ascii has returned their text.
MetadataConverted ==
  /\ Converted
  /\ result.out.tag = "Ok"
  /\ BlockSeq(stream) # <<>>
  /\ \A i \in 1..Len(BlockSeq(stream)) :
       /\ BlockSeq(stream)[i].kind \in MetadataKinds
       /\ decompress(BlockSeq(stream)[i]).tag = "Ok"
       /\ decompress(BlockSeq(stream)[i]).v # <<>>

StartMarker(kind) ==
  CASE kind = "FileMetadata" -> FILE_METADATA_START
    [] kind = "PrinterMetadata" -> PRINTER_METADATA_START
    [] kind = "PrintMetadata" -> PRINT_METADATA_START
    [] kind = "SlicerMetadata" -> SLICER_METADATA_START

EndMarker(kind) ==
  CASE kind = "FileMetadata" -> FILE_METADATA_END
    [] kind = "PrinterMetadata" -> PRINTER_METADATA_END
    [] kind = "PrintMetadata" -> PRINT_METADATA_END
    [] kind = "SlicerMetadata" -> SLICER_METADATA_END

\* The bytes lo..hi of a payload, each as it is but a newline that is not
\* the last byte and that no ';' follows, which is newline, ';', space.
RECURSIVE Commented(_, _, _)
Commented(data, lo, hi) ==
  IF lo > hi THEN <<>>
  ELSE IF lo = hi
  THEN (IF data[lo] = 10 /\ lo < Len(data) /\ data[lo + 1] # 59 THEN <<10, 59, 32>>
        ELSE <<data[lo]>>)
  ELSE Commented(data, lo, (lo + hi) \div 2) \o Commented(data, (lo + hi) \div 2 + 1, hi)

\* The text of a metadata block.
MetadataText(b) ==
  LET data == decompress(b).v
  IN  StartMarker(b.kind) \o (IF data[1] # 59 THEN <<59, 32>> ELSE <<>>)
        \o Commented(data, 1, Len(data)) \o EndMarker(b.kind)

\* The texts of the metadata blocks lo..hi, one after another.
RECURSIVE MetadataTexts(_, _, _)
MetadataTexts(blocks, lo, hi) ==
  IF lo > hi THEN <<>>
  ELSE MetadataTexts(blocks, lo, hi - 1) \o MetadataText(blocks[hi])

\* What the text of a metadata block has after the line of its start
\* marker, up to and with the newline before the line of its end marker.
BetweenMarkers(b) ==
  SubSeq(MetadataText(b), Len(StartMarker(b.kind)) + 1,
         Len(MetadataText(b)) - Len(EndMarker(b.kind)) + 1)

\* Every line of a text that ends with a newline begins with ';'.
LinesCommented(ascii) ==
  \A i \in 1..Len(ascii) : i = 1 \/ ascii[i - 1] = 10 => ascii[i] = 59

\* The text is as the rendering rule gives it, block after block: what a
\* block appends leaves the text before it as it was.
RenderedByRule ==
  result.out.v = MetadataTexts(BlockSeq(stream), 1, Len(BlockSeq(stream)))

\* C36: for a metadata block with a payload that is not empty, to_ascii
\* appends the start marker, "; " if the payload does not start with ';',
\* the payload with "\n; " for every newline that no ';' follows and every
\* other byte (the last too) as it is, and the end marker; every line
\* between the markers begins with ';', and what the buffer held is kept.
C36_MetadataRendering ==
  MetadataConverted =>
    /\ RenderedByRule
    /\ \A i \in 1..Len(BlockSeq(stream)) :
         LinesCommented(BetweenMarkers(BlockSeq(stream)[i]))

\* C36, amended: the text is as the rendering rule gives it and what the
\* buffer held is kept; every line between the markers begins with ';'
\* where the payload does not end with a newline, and where it does, the
\* line before the end marker is empty and every other line begins with ';'.
C36_MetadataRenderingButLastNewline ==
  MetadataConverted =>
    /\ RenderedByRule
    /\ \A i \in 1..Len(BlockSeq(stream)) :
         LET data == decompress(BlockSeq(stream)[i]).v
             between == BetweenMarkers(BlockSeq(stream)[i])
         IN  IF data[Len(data)] # 10 THEN LinesCommented(between)
             ELSE /\ between[Len(between)] = 10
                  /\ between[Len(between) - 1] = 10
                  /\ LinesCommented(SubSeq(between, 1, Len(between) - 1))

\* Two metadata blocks, the second with a payload of two lines of which
\* neither begins with ';'.
C36_Witness ==
  /\ MetadataConverted
  /\ Len(BlockSeq(stream)) = 2
  /\ decompress(BlockSeq(stream)[2]).v = <<97, 61, 49, 10, 98, 61, 50>>
  /\ RenderedByRule


\* The binary is one Thumbnail block and binary_to_ascii has returned its
\* text.
ThumbnailConverted ==
  /\ Converted
  /\ result.out.tag = "Ok"
  /\ Len(BlockSeq(stream)) = 1
  /\ BlockSeq(stream)[1].kind = "Thumbnail"

\* Where the newlines of a text are, in ascending order.
Newlines(ascii) == SelectSeq([k \in 1..Len(ascii) |-> k], LAMBDA j : ascii[j] = 10)

\* The k-th line of a text, without its newline.
Line(ascii, k) ==
  SubSeq(ascii, (IF k = 1 THEN 0 ELSE Newlines(ascii)[k - 1]) + 1, Newlines(ascii)[k] - 1)

\* The number a text of decimal digits writes.
RECURSIVE Decimal(_)
Decimal(digits) ==
  IF digits = <<>> THEN 0
  ELSE 10 * Decimal(SubSeq(digits, 1, Len(digits) - 1)) + (digits[Len(digits)] - 48)

\* The tag of the begin and end lines for an encoding.
ThumbnailTag(encoding) ==
  CASE encoding = "Png" -> <<>>
    [] encoding = "Jpg" -> <<95, 74, 80, 71>>          \* "_JPG"
    [] encoding = "Qoi" -> <<95, 81, 79, 73>>          \* "_QOI"

\* "; thumbnail"
ThumbnailWord == SubSeq(thumbnail_begin_line, 1, 11)

\* The value of a character of Base64.
Base64Value(c) == (CHOOSE i \in 1..64 : BASE64_ALPHABET[i] = c) - 1

\* The bytes that a Base64 text with padding writes.
RECURSIVE Base64Decode(_)
Base64Decode(r) ==
  IF r = <<>> THEN <<>>
  ELSE
    LET a == Base64Value(r[1])
        b == Base64Value(r[2])
        c == IF r[3] = 61 THEN 0 ELSE Base64Value(r[3])
        d == IF r[4] = 61 THEN 0 ELSE Base64Value(r[4])
    IN  <<4 * a + (b \div 16)>>
          \o (IF r[3] = 61 THEN <<>> ELSE <<16 * (b % 16) + (c \div 4)>>)
          \o (IF r[4] = 61 THEN <<>> ELSE <<64 * (c % 4) + d>>)
          \o Base64Decode(SubSeq(r, 5, Len(r)))

\* The lines k..n of a text without their first two characters, one after
\* another.
RECURSIVE Bodies(_, _, _)
Bodies(ascii, k, n) ==
  IF k > n THEN <<>>
  ELSE Bodies(ascii, k, n - 1) \o SubSeq(Line(ascii, n), 3, Len(Line(ascii, n)))

\* C37: for a Thumbnail block, to_ascii emits a begin line with the width
\* and height of parameter bytes 2..6 and the length of the Base64 text,
\* then lines of "; " and at most 78 characters of Base64, all but the last
\* of exactly 78, which together are the Base64 of the payload, then the
\* end line; the tag of both is thumbnail, thumbnail_JPG or thumbnail_QOI
\* by the encoding.
C37_ThumbnailRendering ==
  ThumbnailConverted =>
    LET b == BlockSeq(stream)[1]
        out == result.out.v
        n == Len(Newlines(out))
        body == Bodies(out, 3, n - 3)
        tag == ThumbnailWord \o ThumbnailTag(b.encoding)
    IN  /\ out[Len(out)] = 10
        /\ Line(out, 1) \o <<10>> = THUMBNAIL_START
        /\ Line(out, 2)
             = tag \o <<32, 98, 101, 103, 105, 110, 32>>        \* " begin "
                 \o to_string(U16At(b.parameters, 3)) \o <<120>>
                 \o to_string(U16At(b.parameters, 5)) \o <<32>> \o to_string(Len(body))
        /\ \E x \in 1..Len(Line(out, 2)), sp \in 1..Len(Line(out, 2)) :
             /\ Line(out, 2)[x] = 120
             /\ Line(out, 2)[sp] = 32
             /\ x < sp
             /\ Decimal(SubSeq(Line(out, 2), Len(tag) + 8, x - 1)) = U16At(b.parameters, 3)
             /\ Decimal(SubSeq(Line(out, 2), x + 1, sp - 1)) = U16At(b.parameters, 5)
             /\ Decimal(SubSeq(Line(out, 2), sp + 1, Len(Line(out, 2)))) = Len(body)
        /\ \A k \in 3..(n - 3) :
             /\ SubSeq(Line(out, k), 1, 2) = <<59, 32>>
             /\ Len(Line(out, k)) - 2 \in 1..78
             /\ k < n - 3 => Len(Line(out, k)) - 2 = 78
        /\ Len(body) = 4 * ((Len(b.data) + 2) \div 3)
        /\ Base64Decode(body) = b.data
        /\ Line(out, n - 2) = tag \o <<32, 101, 110, 100, 32>>  \* " end "
        /\ Line(out, n - 1) = <<59>>
        /\ Line(out, n) \o <<10>> = THUMBNAIL_END

\* A picture whose Base64 takes two lines, and one of 640 by 480.
C37_Witness ==
  /\ ThumbnailConverted
  /\ Len(Newlines(result.out.v)) = 7
  /\ BlockSeq(stream)[1].encoding = "Qoi"

C37_WitnessLarge ==
  /\ ThumbnailConverted
  /\ BlockSeq(stream)[1].parameters[3] = 128
  /\ Len(Newlines(result.out.v)) = 6


\* The place of a kind in the binary of a text.
KindOrder38(kind) ==
  CASE kind = "FileMetadata" -> 1
    [] kind = "PrinterMetadata" -> 2
    [] kind = "SlicerMetadata" -> 3
    [] kind = "Thumbnail" -> 4
    [] kind = "GCode" -> 5
    [] kind = "PrintMetadata" -> 0

\* The compression of a kind in the binary of a text.
CompressionOfKind(kind) ==
  CASE kind = "SlicerMetadata" -> "Deflate"
    [] kind = "GCode" -> "Heatshrink11_4"
    [] OTHER -> "None"

\* The first line of a text that starts with "; generated by", if any,
\* without its newline.
GeneratedLines(ascii) ==
  LET starts == SelectSeq([k \in 1..Len(ascii) |-> k],
                          LAMBDA j : /\ ascii[j] = generated_by[1]
                                     /\ j = 1 \/ ascii[j - 1] = 10
                                     /\ j + Len(generated_by) - 1 <= Len(ascii)
                                     /\ SubSeq(ascii, j, j + Len(generated_by) - 1)
                                          = generated_by)
      end == find(Drain(ascii, starts[1] - 1), <<10>>)
  IN  IF starts = <<>> THEN <<>>
      ELSE IF end = None THEN <<Drain(ascii, starts[1] - 1)>>
      ELSE <<SubSeq(ascii, starts[1], starts[1] + end[1] - 1)>>

C31_NoSliceOutOfRange ==
  result # NoResult =>
    \/ result.tag \in {"FileHeader", "Block", "MoreBytesRequired"}
    \/ result.tag = "Err" /\ result.err # "TryFromSliceError"

(***************************************************************************)
(* Draining: the caller digests a prefix of a stream (the whole stream or  *)
(* a truncated one) and then calls deserialise again and again without     *)
(* digesting, as the loops of binary_to_ascii and of the streaming example *)
(* do, until a call returns MoreBytesRequired (break), an error (? or      *)
(* unwrap) or panics.  The loop calls deserialise as long as it has not    *)
(* stopped, so the call is weakly fair.                                    *)
(***************************************************************************)
Stopped == result.tag \in {"MoreBytesRequired", "Err", "Panic"}

\* digest(&stream[..n]), once, before the loop.
DigestPrefix ==
  /\ pos = 0
  /\ result = NoResult
  /\ events = <<>>
  /\ \E n \in 1..Len(stream) :
       /\ inner' = digest(Self, SubSeq(stream, 1, n)).inner
       /\ pos' = n
  /\ UNCHANGED <<state, checksum, result, events, stream, input, resets>>

\* One turn of the loop: deserialise, unless the loop has exited.
DrainLoop == ~Stopped /\ Deserialise

NextDrain == DigestPrefix \/ DrainLoop

\* The streams drained: ten raw header bytes and a block, a block of another
\* writer, and the lists of MaxBlocks blocks that start with a G-code block.
InitDrain ==
  \/ InitRawHeader
  \/ InitForeign
  \/ InitWellFormed /\ Len(input.blocks) = MaxBlocks /\ input.blocks[1].kind = "GCode"

SpecDrain == InitDrain /\ [][NextDrain]_vars /\ WF_vars(DrainLoop)

\* A call that returns a FileHeader takes 10 bytes off the front of pending,
\* one that returns a Block takes the frame's total_len >= 10, any other
\* call leaves pending as it is.
Shortened ==
  CASE result'.tag = "FileHeader" ->
         /\ Len(inner) >= 10
         /\ inner' = SubSeq(inner, 11, Len(inner))
    [] result'.tag = "Block" ->
         LET total_len == WideToInt(TotalLen(inner, checksum))
         IN  /\ total_len >= 10
             /\ Len(inner) >= total_len
             /\ inner' = SubSeq(inner, total_len + 1, Len(inner))
    [] OTHER -> inner' = inner

MaxInput == 3

\* The input buffer of the encoder, for 1 << window.
EncoderInput == 2

\* input.len() as u16
as_u16(n) == n % (u16_MAX + 1)

Answer(status, sz) == [status |-> status, sz |-> sz]

Pump == [pc |-> state, sunk |-> pos, polled |-> resets, result |-> result]

Returned(p, r) == [p EXCEPT !.pc = "returned", !.result = r]

\* while sunk < input.len()
WhileSunk(p, len) == IF p.sunk < len THEN "sink" ELSE "finish"

shrink_sink(p, ans) ==
  IF ans.status = "Ok" THEN [p EXCEPT !.sunk = @ + ans.sz, !.pc = "poll"]
  ELSE Returned(p, Err("SerialiseError", <<"heatshrink_01">>))

shrink_poll(p, len, ans) ==
  IF ans.status = "Empty"
  THEN [p EXCEPT !.polled = @ + ans.sz,
                 !.pc = IF ans.sz = 0 THEN WhileSunk(p, len) ELSE "poll"]
  ELSE Returned(p, Err("SerialiseError", <<"heatshrink_02">>))

shrink_finish(p, ans) ==
  CASE ans.status = "Done" -> Returned(p, Ok(p.polled))
    [] ans.status = "More" -> [p EXCEPT !.pc = "finish_poll"]
    [] OTHER -> Returned(p, Err("SerialiseError", <<"heatshrink_04">>))

shrink_finish_poll(p, ans) ==
  IF ans.status = "Empty" THEN [p EXCEPT !.polled = @ + ans.sz, !.pc = "finish"]
  ELSE Returned(p, Err("SerialiseError", <<"heatshrink_03">>))

unshrink_sink(p, ans) ==
  IF ans.status = "Ok" THEN [p EXCEPT !.sunk = @ + ans.sz, !.pc = "poll"]
  ELSE Returned(p, Err("DecodeError", <<"HSDSinkRes", ans.status>>))

\* unshrink_poll with More taken for a failure.
unshrink_poll_MoreIsError(p, len, ans) ==
  CASE ans.status = "Empty" ->
         [p EXCEPT !.polled = @ + ans.sz,
                   !.pc = IF ans.sz = 0 THEN WhileSunk(p, len) ELSE "poll"]
    [] OTHER -> Returned(p, Err("DecodeError", <<"HSDPollRes", ans.status>>))

unshrink_poll(p, len, ans) ==
  CASE ans.status = "Empty" ->
         [p EXCEPT !.polled = @ + ans.sz,
                   !.pc = IF ans.sz = 0 THEN WhileSunk(p, len) ELSE "poll"]
    [] ans.status = "More" -> [p EXCEPT !.polled = @ + ans.sz, !.pc = WhileSunk(p, len)]
    [] OTHER -> Returned(p, Err("DecodeError", <<"HSDPollRes", ans.status>>))

\* Ok(uncompressed): the whole buffer of uncompressed_len bytes.
unshrink_finish(p, uncompressed_len, ans) ==
  CASE ans.status = "Done" -> Returned(p, Ok(uncompressed_len))
    [] ans.status = "More" -> [p EXCEPT !.pc = "finish_poll"]
    [] OTHER -> Returned(p, Err("DecodeError", <<"HSDFinishRes", ans.status>>))

unshrink_finish_poll(p, uncompressed_len, ans) ==
  CASE ans.status = "Empty" ->
         IF ans.sz = 0 THEN Returned(p, Ok(uncompressed_len))
         ELSE [p EXCEPT !.polled = @ + ans.sz, !.pc = "finish"]
    [] ans.status = "More" -> [p EXCEPT !.polled = @ + ans.sz, !.pc = "finish"]
    [] OTHER -> Returned(p, Err("DecodeError", <<"HSDPollRes", ans.status>>))

\* The coder's answer to sink with sunk bytes taken: as much as its input
\* buffer holds (the decoder's is as_u16(input.len()) bytes).
CoderSink(in, sunk) ==
  LET room == IF in.fn = "shrink" THEN EncoderInput ELSE as_u16(in.len)
      sz == IF in.len - sunk < room THEN in.len - sunk ELSE room
  IN  IF in.fault = "sink"
      THEN Answer(IF in.fn = "shrink" THEN "ErrorMisuse" ELSE "ErrorNull", 0)
      ELSE IF room = 0 THEN Answer("Full", 0)
      ELSE Answer("Ok", sz)

\* The output the coder has released once sunk bytes are taken: the encoder
\* releases when its input buffer is full and keeps the end of the stream
\* until finish, the decoder decodes what it is given.
Released(in, coder, sunk) ==
  IF in.fn = "unshrink" THEN (in.total * sunk) \div in.len
  ELSE IF sunk % EncoderInput = 0 THEN (in.total * sunk) \div (in.len + 1)
  ELSE coder.ready

\* The coder's answer to poll on a slice of slice bytes with polled handed out.
CoderPoll(in, coder, polled, slice) ==
  LET held == coder.ready - polled
  IN  IF in.fault = "poll"
      THEN Answer(IF in.fn = "shrink" THEN "ErrorMisuse" ELSE "ErrorUnknown", 0)
      ELSE IF slice = 0 THEN Answer(in.slice_none, 0)
      ELSE IF held > slice THEN Answer("More", slice)
      ELSE IF held = slice THEN Answer(in.slice_full, slice)
      ELSE Answer("Empty", held)

\* The coder's answer to finish: Done once its output is drained (the
\* encoder after a poll has handed out the end of the stream).
CoderFinish(in, coder, polled) ==
  IF in.fault = "finish" THEN Answer("ErrorNull", 0)
  ELSE IF in.fn = "shrink" THEN Answer(IF coder.done THEN "Done" ELSE "More", 0)
  ELSE Answer(IF polled = in.total THEN "Done" ELSE "More", 0)

PumpInputs ==
  {[tag |-> "pump", fn |-> "shrink", len |-> len, capacity |-> len, total |-> total,
    slice_full |-> "Empty", slice_none |-> none, size_zero |-> "Ok", fault |-> fault] :
     len \in 0..MaxInput, total \in 0..(MaxInput + 2), none \in {"More", "ErrorMisuse"},
     fault \in {"none", "sink", "poll", "finish"}}
    \cup
  {[tag |-> "pump", fn |-> "unshrink", len |-> len, capacity |-> uncompressed_len,
    total |-> IF len = 0 THEN 0 ELSE total,
    slice_full |-> full, slice_none |-> none, size_zero |-> zero, fault |-> fault] :
     len \in 0..MaxInput \cup {u16_MAX + 1}, uncompressed_len \in 0..MaxInput,
     total \in 0..(MaxInput + 2), full \in {"Empty", "More"},
     none \in {"Empty", "More", "ErrorUnknown"}, zero \in {"Ok", "Panic"},
     fault \in {"none", "sink", "poll", "finish"}}

InitPump ==
  \E in \in PumpInputs :
    /\ inner = [ready |-> 0, finishing |-> FALSE, done |-> FALSE]
    /\ state = "new"
    /\ checksum = "None"
    /\ result = NoResult
    /\ events = <<>>
    /\ stream = <<>>
    /\ pos = 0
    /\ input = in
    /\ resets = 0

Pumped(p) ==
  /\ state' = p.pc
  /\ pos' = p.sunk
  /\ resets' = p.polled
  /\ result' = p.result

\* HeatshrinkEncoder::new(window, lookahead).unwrap();
\* HeatshrinkDecoder::new(input_buffer_size as u16, window, lookahead).unwrap()
PumpNew ==
  /\ state = "new"
  /\ IF input.fn = "unshrink" /\ as_u16(input.len) = 0 /\ input.size_zero = "Panic"
     THEN Pumped(Returned(Pump, Panic))
     ELSE Pumped([Pump EXCEPT !.pc = WhileSunk(Pump, input.len)])
  /\ events' = <<[call |-> "new", answer |-> Answer(input.size_zero, 0)]>>
  /\ UNCHANGED <<inner, checksum, stream, input>>

\* sink(&input[sunk..]) and the match on its answer.
PumpSink ==
  /\ state = "sink"
  /\ LET ans == CoderSink(input, pos)
         p == IF input.fn = "shrink" THEN shrink_sink(Pump, ans)
              ELSE unshrink_sink(Pump, ans)
     IN  /\ Pumped(p)
         /\ inner' = [inner EXCEPT !.ready = IF ans.status = "Ok"
                                             THEN Released(input, inner, p.sunk) ELSE @]
         /\ events' = <<[call |-> "sink", answer |-> ans]>>
  /\ UNCHANGED <<checksum, stream, input>>

\* poll(&mut output[polled..]) and the match on its answer, in the loop after
\* a sink and in the loop of finish.
PumpPoll ==
  /\ state \in {"poll", "finish_poll"}
  /\ LET ans == CoderPoll(input, inner, resets, input.capacity - resets)
         p == CASE input.fn = "shrink" /\ state = "poll" -> shrink_poll(Pump, input.len, ans)
                [] input.fn = "shrink" /\ state = "finish_poll" ->
                     shrink_finish_poll(Pump, ans)
                [] input.fn = "unshrink" /\ state = "poll" ->
                     unshrink_poll(Pump, input.len, ans)
                [] input.fn = "unshrink" /\ state = "finish_poll" ->
                     unshrink_finish_poll(Pump, input.capacity, ans)
     IN  /\ Pumped(p)
         /\ inner' = [inner EXCEPT !.done = \/ @
                                            \/ /\ inner.finishing
                                               /\ ans.status = "Empty"
                                               /\ resets + ans.sz = input.total]
         /\ events' = <<[call |-> "poll", answer |-> ans]>>
  /\ UNCHANGED <<checksum, stream, input>>

\* finish() and the match on its answer.
PumpFinish ==
  /\ state = "finish"
  /\ LET ans == CoderFinish(input, inner, resets)
         p == IF input.fn = "shrink" THEN shrink_finish(Pump, ans)
              ELSE unshrink_finish(Pump, input.capacity, ans)
     IN  /\ Pumped(p)
         /\ inner' = [inner EXCEPT !.finishing = TRUE,
                                   !.ready = IF ans.status = "ErrorNull" THEN @
                                             ELSE input.total]
         /\ events' = <<[call |-> "finish", answer |-> ans]>>
  /\ UNCHANGED <<checksum, stream, input>>

NextPump == PumpNew \/ PumpSink \/ PumpPoll \/ PumpFinish

\* The pump runs on until it returns.
SpecPump == InitPump /\ [][NextPump]_vars /\ WF_vars(NextPump)

\* The call of a step of the pump and the coder's answer to it.
CoderCalled(call) == events' # <<>> /\ events'[1].call = call

Answered == events'[1].answer

Aborted == state' = "returned" /\ result'.tag = "Err" /\ resets' = resets /\ pos' = pos

\* sink: Ok(sz) advances sunk and polling follows; any other answer aborts.
SinkProtocol ==
  CoderCalled("sink") =>
    IF Answered.status = "Ok"
    THEN pos' = pos + Answered.sz /\ resets' = resets /\ state' = "poll"
    ELSE Aborted

\* finish: Done ends the pump with Ok, More is followed by a poll, any other
\* answer aborts.
FinishProtocol ==
  CoderCalled("finish") =>
    CASE Answered.status = "Done" -> state' = "returned" /\ result'.tag = "Ok"
      [] Answered.status = "More" -> state' = "finish_poll" /\ result' = NoResult
      [] OTHER -> Aborted

\* poll answering Empty(sz): sz is added to polled; after a sink the pump
\* polls again unless sz = 0, in the loop of finish it calls finish again.
\* (until_done: the loop of finish is left at Done only.)
EmptyProtocol(until_done) ==
  (CoderCalled("poll") /\ Answered.status = "Empty") =>
    \/ /\ resets' = resets + Answered.sz
       /\ result' = NoResult
       /\ state' = (IF state = "finish_poll" THEN "finish"
                    ELSE IF Answered.sz > 0 THEN "poll"
                    ELSE IF pos < input.len THEN "sink" ELSE "finish")
    \/ /\ ~until_done
       /\ input.fn = "unshrink" /\ state = "finish_poll" /\ Answered.sz = 0
       /\ state' = "returned" /\ result' = Ok(input.capacity)

\* poll answering anything but Empty aborts.
OtherIsError == (CoderCalled("poll") /\ Answered.status # "Empty") => Aborted

\* poll answering anything but Empty aborts, except More(sz) in unshrink: sz
\* is added to polled, the polling after a sink ends and the loop of finish
\* calls finish again.
OtherIsErrorButMore ==
  (CoderCalled("poll") /\ Answered.status # "Empty") =>
    IF input.fn = "unshrink" /\ Answered.status = "More"
    THEN /\ resets' = resets + Answered.sz
         /\ result' = NoResult
         /\ state' = (IF state = "finish_poll" \/ pos >= input.len THEN "finish" ELSE "sink")
    ELSE Aborted

(***************************************************************************)
(* C32.  Heatshrink pump protocol: in unshrink and in shrink, after each   *)
(* sink the pump polls until poll reports Empty with zero bytes and adds   *)
(* every produced count to polled; after all input is sunk it calls finish *)
(* until Done, polling on More; any poll status other than Empty (More     *)
(* included) and any sink status other than Ok aborts with an error and is *)
(* not accumulated.                                                        *)
(***************************************************************************)
C32_PumpProtocol ==
  [][SinkProtocol /\ FinishProtocol /\ EmptyProtocol(TRUE) /\ OtherIsError]_vars

\* C32, as the code has it: shrink is as claimed; unshrink accumulates
\* More(sz) as well (ending the polling after a sink, calling finish again in
\* the loop of finish) and leaves the loop of finish also at Empty with zero
\* bytes; the other poll answers and any sink answer other than Ok abort.
C32_PumpProtocolMoreAccumulated ==
  [][SinkProtocol /\ FinishProtocol /\ EmptyProtocol(FALSE) /\ OtherIsErrorButMore]_vars

\* unshrink has added the bytes of a poll that answered More and goes on.
C32_Witness ==
  /\ input.tag = "pump" /\ input.fn = "unshrink"
  /\ events # <<>> /\ events[1].call = "poll"
  /\ events[1].answer = Answer("More", 2)
  /\ resets = 2
  /\ result = NoResult

(***************************************************************************)
(* C33.  Compressor output buffer grows: when the compressed stream is     *)
(* longer than the input (the empty payload included), shrink enlarges its *)
(* output buffer and returns the complete stream; it never polls into an   *)
(* empty slice while the encoder still holds output and never cuts the     *)
(* stream to the input length.                                             *)
(***************************************************************************)
C33_BufferGrows ==
  (/\ input.tag = "pump" /\ input.fn = "shrink" /\ input.fault = "none"
   /\ input.total > input.len) =>
    /\ state = "returned" => result = Ok(input.total)
    /\ state \in {"poll", "finish_poll"} =>
         ~(resets = input.capacity /\ inner.ready > resets)

(***************************************************************************)
(* C34.  Pump termination: with a coder that takes at least one byte per   *)
(* sink while input remains and reports Done after finish once its output  *)
(* is drained, shrink and unshrink return for every input, also when       *)
(* polled has reached the end of the output buffer (poll is then given an  *)
(* empty slice) and when the input is longer than 65535 bytes (the input   *)
(* buffer of the decoder is the input length cast to u16).                 *)
(***************************************************************************)
C34_PumpTerminates == <>(state = "returned")

====
